---- MODULE Spec2Model ----
(***************************************************************************)
(* Model of the heuristic CSV decoder of src/src/lib/csv/parse.ts.         *)
(*                                                                         *)
(* A string is a sequence of UTF-16 code units (naturals); a byte buffer   *)
(* is a sequence of bytes.  A row (a JS object) is a sequence of           *)
(* <<key, value>> pairs in property-insertion order with distinct keys.    *)
(* The modelled alphabets contain no digit, so no key is an array index    *)
(* and insertion order is enumeration order.                               *)
(*                                                                         *)
(* Papa.parse is the PapaParse 5.5 library; the modelled inputs contain no *)
(* quote character, so the library runs its split-based fast path.         *)
(***************************************************************************)
EXTENDS Integers, Sequences, FiniteSets, Bags, TLC

VARIABLES
    buffer,      \* parseCsvBuffer: the byte buffer given to the call
    pc,          \* position of the running operation
    encIndex,    \* parseCsvBuffer: index of the next entry of ENCODING_CANDIDATES
    candidates,  \* parseCsvBuffer: the candidate pool, in generation order
    outcome,     \* parseCsvBuffer: "none", "rows", "xlsx" or "unrecognized"
    returned,    \* parseCsvBuffer: the rows returned (best.rows)
    fnIn,        \* input of the function applied by a function-level specification
    fnOut,       \* its result
    STORE,       \* session-store.ts: the STORE map of every server process
    files,       \* session-store.ts: the files of SESSION_DIR, by session id
    now,         \* Date.now()
    created,     \* the dataset and creation time of every session createSession made
    reply,       \* the last getSession call and what it returned
    writer,      \* the file each process has open for writing, with the text to write
    dash,        \* DashboardApp: the state and refs of the component
    inflight     \* DashboardApp: the requests awaiting their response

parseVars == <<buffer, pc, encIndex, candidates, outcome, returned, fnIn, fnOut>>
storeVars == <<STORE, files, now, created, reply, writer>>
dashVars == <<dash, inflight>>

vars == <<parseVars, storeVars, dashVars>>

\* the session store and the dashboard before any use
NoSessions ==
    /\ STORE = <<>>
    /\ files = <<>>
    /\ now = 0
    /\ created = <<>>
    /\ reply = <<>>
    /\ writer = <<>>

NoDashboard ==
    /\ dash = <<>>
    /\ inflight = <<>>

----------------------------------------------------------------------------
(* Strings *)

\* "col_"
StrCol == <<99, 111, 108, 95>>
\* "__parsed_extra"
StrParsedExtra == <<95, 95, 112, 97, 114, 115, 101, 100, 95, 101, 120, 116, 114, 97>>
\* " ", "_" and ","
StrSpace == <<32>>
StrUnderscore == <<95>>
StrComma == <<44>>

\* the replacement character U+FFFD, the byte order mark U+FEFF, "\n" and "\r"
ReplacementChar == 65533
ByteOrderMark == 65279
LineFeed == 10
CarriageReturn == 13

\* the decimal digits of n: String(n)
RECURSIVE NumStr(_)
NumStr(n) == IF n < 10 THEN <<48 + n>> ELSE NumStr(n \div 10) \o <<48 + (n % 10)>>

\* ECMAScript WhiteSpace and LineTerminator: what \s matches and trim() removes
IsWhiteSpace(c) ==
    \/ c \in {9, 10, 11, 12, 13, 32, 160, 5760, 8232, 8233, 8239, 8287, 12288, 65279}
    \/ (c >= 8192 /\ c <= 8202)

RECURSIVE TrimStart(_)
TrimStart(s) ==
    IF s # <<>> /\ IsWhiteSpace(Head(s)) THEN TrimStart(Tail(s)) ELSE s

RECURSIVE TrimEnd(_)
TrimEnd(s) ==
    IF s # <<>> /\ IsWhiteSpace(s[Len(s)]) THEN TrimEnd(SubSeq(s, 1, Len(s) - 1)) ELSE s

\* String.prototype.trim
Trim(s) == TrimEnd(TrimStart(s))

\* String.prototype.split with a one-character separator
Split(s, c) ==
    LET RECURSIVE go(_, _, _)
        go(i, cur, acc) ==
            IF i > Len(s) THEN Append(acc, cur)
            ELSE IF s[i] = c THEN go(i + 1, <<>>, Append(acc, cur))
            ELSE go(i + 1, Append(cur, s[i]), acc)
    IN go(1, <<>>, <<>>)

\* Array.prototype.join
RECURSIVE Join(_, _)
Join(parts, sep) ==
    IF parts = <<>> THEN <<>>
    ELSE IF Len(parts) = 1 THEN parts[1]
    ELSE parts[1] \o sep \o Join(Tail(parts), sep)

\* Array.prototype.slice(0, n)
Take(s, n) == SubSeq(s, 1, IF Len(s) < n THEN Len(s) ELSE n)

\* Array.prototype.filter
FilterSeq(s, Keep(_)) ==
    LET RECURSIVE go(_, _)
        go(i, acc) ==
            IF i > Len(s) THEN acc
            ELSE go(i + 1, IF Keep(s[i]) THEN Append(acc, s[i]) ELSE acc)
    IN go(1, <<>>)

\* Array.prototype.flatMap over already mapped arrays
RECURSIVE Flatten(_)
Flatten(ss) == IF ss = <<>> THEN <<>> ELSE Head(ss) \o Flatten(Tail(ss))

\* the number of elements of s that satisfy P
CountIf(s, P(_)) == Cardinality({i \in 1..Len(s) : P(s[i])})

----------------------------------------------------------------------------
(* Rows: JS objects with string keys *)

RowKeys(row) == [i \in 1..Len(row) |-> row[i][1]]
RowValues(row) == [i \in 1..Len(row) |-> row[i][2]]
HasKey(row, k) == \E i \in 1..Len(row) : row[i][1] = k
GetKey(row, k) == (CHOOSE i \in 1..Len(row) : row[i][1] = k)

\* row[k] = v : an existing key keeps its position, a new key is appended
Put(row, k, v) ==
    IF HasKey(row, k)
    THEN [row EXCEPT ![GetKey(row, k)] = <<k, v>>]
    ELSE Append(row, <<k, v>>)

\* Object.values(row).some((value) => value.length > 0)
SomeValue(row) == \E i \in 1..Len(row) : Len(row[i][2]) > 0

----------------------------------------------------------------------------
(* Text quality *)

\* (code >= 0 && code <= 8) || (code >= 11 && code <= 12) || (code >= 14 && code <= 31)
IsControl(c) ==
    \/ (c >= 0 /\ c <= 8)
    \/ (c >= 11 /\ c <= 12)
    \/ (c >= 14 /\ c <= 31)

\* /[가-힣A-Za-z0-9\s_()[\]{}\-\/,.:]/
IsReadable(c) ==
    \/ (c >= 44032 /\ c <= 55203)
    \/ (c >= 65 /\ c <= 90)
    \/ (c >= 97 /\ c <= 122)
    \/ (c >= 48 /\ c <= 57)
    \/ IsWhiteSpace(c)
    \/ c \in {95, 40, 41, 91, 93, 123, 125, 45, 47, 44, 46, 58}

EmptyTextScore == -1000
ReplacementPenalty == 12
ControlPenalty == 12

\* mutant of textQualityScore: a replacement character counts as readable
textQualityScore_ReplacementReadable(text) ==
    IF text = <<>> THEN EmptyTextScore
    ELSE LET replacement == CountIf(text, LAMBDA c : c = ReplacementChar)
             control == CountIf(text, LAMBDA c : c # ReplacementChar /\ IsControl(c))
             readable == CountIf(text, LAMBDA c :
                             c # ReplacementChar /\ ~IsControl(c) /\ IsReadable(c))
         IN readable + replacement - control * ControlPenalty

textQualityScore(text) ==
    IF text = <<>> THEN EmptyTextScore
    ELSE LET replacement == CountIf(text, LAMBDA c : c = ReplacementChar)
             control == CountIf(text, LAMBDA c : c # ReplacementChar /\ IsControl(c))
             readable == CountIf(text, LAMBDA c :
                             c # ReplacementChar /\ ~IsControl(c) /\ IsReadable(c))
         IN readable - replacement * ReplacementPenalty - control * ControlPenalty

SampleRows == 8
SampleColumns == 6

\* mutant of rowsQualityScore: the header names are cut to the sampled columns too
rowsQualityScore_SampledKeys(rows) ==
    IF Len(rows) = 0 THEN EmptyTextScore
    ELSE LET first == rows[1]
             headerText == Join(Take(RowKeys(first), SampleColumns), StrSpace)
             sampled == Take(rows, SampleRows)
             valueText == Join(Flatten([i \in 1..Len(sampled) |->
                                   Take(RowValues(sampled[i]), SampleColumns)]), StrSpace)
         IN textQualityScore(headerText \o StrSpace \o valueText)

rowsQualityScore(rows) ==
    IF Len(rows) = 0 THEN EmptyTextScore
    ELSE LET first == rows[1]
             headerText == Join(RowKeys(first), StrSpace)
             sampled == Take(rows, SampleRows)
             valueText == Join(Flatten([i \in 1..Len(sampled) |->
                                   Take(RowValues(sampled[i]), SampleColumns)]), StrSpace)
         IN textQualityScore(headerText \o StrSpace \o valueText)

----------------------------------------------------------------------------
(* normalizeText *)

\* text.replace(/^\uFEFF/, "")
StripBom(text) ==
    IF text # <<>> /\ Head(text) = ByteOrderMark THEN Tail(text) ELSE text

\* "." of a regular expression: any character but a line terminator
IsLineTerminator(c) == c \in {10, 13, 8232, 8233}

\* /^sep=/i
StartsWithSep(text) ==
    /\ Len(text) >= 4
    /\ text[1] \in {115, 83}
    /\ text[2] \in {101, 69}
    /\ text[3] \in {112, 80}
    /\ text[4] = 61

\* text.replace(/^sep=.+\r?\n/i, ""): ".+" is greedy and stops at the first line
\* terminator, which must be "\n" or "\r\n"
StripExcelSep(text) ==
    IF ~StartsWithSep(text) THEN text
    ELSE LET ends == {i \in 5..Len(text) : IsLineTerminator(text[i])}
         IN IF ends = {} THEN text
            ELSE LET e == CHOOSE i \in ends : \A j \in ends : i <= j
                 IN IF e = 5 THEN text
                    ELSE IF text[e] = LineFeed THEN SubSeq(text, e + 1, Len(text))
                    ELSE IF text[e] = CarriageReturn /\ e < Len(text) /\ text[e + 1] = LineFeed
                         THEN SubSeq(text, e + 2, Len(text))
                    ELSE text

\* .replace(/\r\n/g, "\n").replace(/\r/g, "\n")
RECURSIVE ReplaceCr(_)
ReplaceCr(text) ==
    IF text = <<>> THEN <<>>
    ELSE IF Head(text) = CarriageReturn
         THEN IF Len(text) >= 2 /\ text[2] = LineFeed
              THEN ReplaceCr(Tail(text))
              ELSE <<LineFeed>> \o ReplaceCr(Tail(text))
    ELSE <<Head(text)>> \o ReplaceCr(Tail(text))

normalizeText(text) == ReplaceCr(StripExcelSep(StripBom(text)))

----------------------------------------------------------------------------
(* Papa.parse(text, {header, delimiter, skipEmptyLines: "greedy",          *)
(* transformHeader: trim}) on a text without quote characters and without  *)
(* carriage returns (normalizeText removed them, so the guessed newline is *)
(* "\n").                                                                  *)

\* the core parser's fast path: split into lines, split every line into fields
PapaCore(input, delim) ==
    IF input = <<>> THEN <<>>
    ELSE LET lines == Split(input, LineFeed)
         IN [i \in 1..Len(lines) |-> Split(lines[i], delim)]

\* testEmptyLine with skipEmptyLines "greedy": s.join("").trim() === ""
PapaEmptyLine(fields) == Trim(Join(fields, <<>>)) = <<>>

\* Papa's delimitersToGuess: , \t | ; RECORD_SEP UNIT_SEP
PapaDelimitersToGuess == <<44, 9, 124, 59, 30, 31>>

\* one round of guessDelimiter over the non-empty lines of the preview: the sum of
\* the field counts, the number of lines, and the summed change of the field count
\* from line to line
PapaStatsOfLines(lines) ==
    LET Abs(x) == IF x < 0 THEN 0 - x ELSE x
        RECURSIVE sum(_)
        sum(i) == IF i > Len(lines) THEN 0 ELSE Len(lines[i]) + sum(i + 1)
        RECURSIVE delta(_)
        delta(i) == IF i > Len(lines) THEN 0
                    ELSE Abs(Len(lines[i]) - Len(lines[i - 1])) + delta(i + 1)
    IN [total |-> sum(1), count |-> Len(lines), delta |-> delta(2)]

\* the statistics of one delimiter over a 10-line preview
PapaGuessStats(input, delim) ==
    PapaStatsOfLines(FilterSeq(Take(PapaCore(input, delim), 10),
                               LAMBDA r : ~PapaEmptyLine(r)))

\* guessDelimiter's comparison: delimiter d replaces the best one so far when its
\* field count varies no more and its average, above 1.99, is larger
PapaBetterGuess(d, st, best) ==
    IF /\ st.count > 0
       /\ (best.delim = <<>> \/ st.delta <= best.delta)
       /\ (best.delim = <<>> \/ st.total * best.count > best.total * st.count)
       /\ 100 * st.total > 199 * st.count
    THEN [delim |-> <<d>>, delta |-> st.delta, total |-> st.total, count |-> st.count]
    ELSE best

\* guessDelimiter: <<>> when no delimiter averages more than 1.99 fields
PapaGuessDelimiter(input) ==
    LET RECURSIVE go(_, _)
        go(i, best) ==
            IF i > Len(PapaDelimitersToGuess) THEN best
            ELSE go(i + 1, PapaBetterGuess(PapaDelimitersToGuess[i],
                                           PapaGuessStats(input, PapaDelimitersToGuess[i]),
                                           best))
    IN go(1, [delim |-> <<>>, delta |-> 0, total |-> 0, count |-> 1]).delim

\* the core parser's renaming of duplicate names in the first parsed line
PapaRenameHeaders(line) ==
    LET RECURSIVE free(_, _, _)
        free(header, n, used) ==
            IF (header \o StrUnderscore \o NumStr(n)) \in used
            THEN free(header, n + 1, used)
            ELSE header \o StrUnderscore \o NumStr(n)
        RECURSIVE go(_, _, _, _)
        go(i, result, counts, used) ==
            IF i > Len(line) THEN result
            ELSE LET header == Trim(line[i])
                 IN IF ~HasKey(counts, header)
                    THEN go(i + 1, Append(result, header), Put(counts, header, 1),
                            used \cup {header})
                    ELSE LET n == counts[GetKey(counts, header)][2]
                             renamed == free(header, n, used)
                         IN go(i + 1, Append(result, renamed), Put(counts, header, n + 1),
                               used \cup {renamed, header})
    IN go(1, <<>>, <<>>, {line[i] : i \in 1..Len(line)})

\* processRow with header: fields beyond the header go to the array __parsed_extra
PapaRowObject(fields, cells) ==
    LET RECURSIVE go(_, _)
        go(j, row) ==
            IF j > Len(cells) THEN row
            ELSE IF j > Len(fields)
                 THEN go(j + 1, Put(row, StrParsedExtra,
                                    IF HasKey(row, StrParsedExtra)
                                    THEN Append(row[GetKey(row, StrParsedExtra)][2], cells[j])
                                    ELSE <<cells[j]>>))
            ELSE go(j + 1, Put(row, fields[j], cells[j]))
    IN go(1, <<>>)

\* the parsed lines that survive skipEmptyLines; with header, the names of the first
\* parsed line are renamed before the empty lines are skipped
PapaLines(parsed, header) ==
    FilterSeq(IF header /\ parsed # <<>>
              THEN <<PapaRenameHeaders(parsed[1])>> \o Tail(parsed)
              ELSE parsed,
              LAMBDA r : ~PapaEmptyLine(r))

\* result.meta.fields: the trimmed names of the first remaining line
PapaFields(lines, header) ==
    IF header /\ lines # <<>>
    THEN [i \in 1..Len(lines[1]) |-> Trim(lines[1][i])]
    ELSE <<>>

\* the lines that become result.data
PapaBody(lines, header) == IF header /\ lines # <<>> THEN Tail(lines) ELSE lines

\* result.data, result.errors (their types) and result.meta.fields
PapaResult(body, fields, header, delimiterError) ==
    [data |-> IF header THEN [i \in 1..Len(body) |-> PapaRowObject(fields, body[i])]
              ELSE body,
     errors |-> (IF delimiterError THEN <<"Delimiter">> ELSE <<>>)
                \o (IF header
                    THEN [i \in 1..Len(FilterSeq(body, LAMBDA r : Len(r) # Len(fields)))
                            |-> "FieldMismatch"]
                    ELSE <<>>),
     fields |-> fields]

\* the parse once the delimiter is settled: "," when none was given or guessed
PapaParseLines(lines, header, delimiterError) ==
    PapaResult(PapaBody(lines, header), PapaFields(lines, header), header, delimiterError)

PapaParseWith(input, guessed, header, delimiterError) ==
    PapaParseLines(PapaLines(PapaCore(input, IF guessed = <<>> THEN StrComma[1]
                                             ELSE guessed[1]),
                             header),
                   header, delimiterError)

PapaParseGuessed(input, guessed, header) ==
    PapaParseWith(input, guessed, header, guessed = <<>>)

PapaParse(text, delimiter, header) ==
    IF delimiter = <<>>
    THEN PapaParseGuessed(StripBom(text), PapaGuessDelimiter(StripBom(text)), header)
    ELSE PapaParseWith(StripBom(text), delimiter, header, FALSE)

----------------------------------------------------------------------------
(* The two parse strategies.  A strategy returns <<>> for null and         *)
(* <<candidate>> for a candidate.                                          *)

\* String(value ?? ""): the array __parsed_extra is joined with ","
ValueString(key, value) == IF key = StrParsedExtra THEN Join(value, StrComma) ELSE value

\* mutant of normalizeRows: the values are not trimmed
normalizeRows_ValuesUntrimmed(rows) ==
    LET normalize(row) ==
            LET RECURSIVE go(_, _)
                go(i, normalized) ==
                    IF i > Len(row) THEN normalized
                    ELSE go(i + 1, Put(normalized, Trim(row[i][1]),
                                       ValueString(row[i][1], row[i][2])))
            IN go(1, <<>>)
    IN FilterSeq([i \in 1..Len(rows) |-> normalize(rows[i])], SomeValue)

normalizeRows(rows) ==
    LET normalize(row) ==
            LET RECURSIVE go(_, _)
                go(i, normalized) ==
                    IF i > Len(row) THEN normalized
                    ELSE go(i + 1, Put(normalized, Trim(row[i][1]),
                                       Trim(ValueString(row[i][1], row[i][2]))))
            IN go(1, <<>>)
    IN FilterSeq([i \in 1..Len(rows) |-> normalize(rows[i])], SomeValue)

\* mutant of headerScore: only the errors that are no field mismatch count twice
headerScore_OtherErrorsOnly(rowCount, headerCount, mismatchCount, errorCount, quality) ==
    rowCount * 10 + headerCount * 3 - mismatchCount
        - (errorCount - mismatchCount) * 2 + quality

\* rows.length * 10 + headerCount * 3 - mismatchCount - errorCount * 2 + quality
headerScore(rowCount, headerCount, mismatchCount, errorCount, quality) ==
    rowCount * 10 + headerCount * 3 - mismatchCount - errorCount * 2 + quality

\* mutant of headerCandidate: a parse that leaves no row is not rejected
headerCandidate_KeepsEmpty(result) ==
    LET rows == normalizeRows(result.data)
        headerCount == Len(result.fields)
    IN IF headerCount < 2 THEN <<>>
       ELSE <<[rows |-> rows,
               score |-> headerScore(Len(rows), headerCount,
                             CountIf(result.errors, LAMBDA e : e = "FieldMismatch"),
                             Len(result.errors), rowsQualityScore(rows))]>>

\* mutant of headerCandidate: one header column is enough
headerCandidate_OneColumn(result) ==
    LET rows == normalizeRows(result.data)
        headerCount == Len(result.fields)
    IN IF headerCount < 1 \/ Len(rows) = 0 THEN <<>>
       ELSE <<[rows |-> rows,
               score |-> headerScore(Len(rows), headerCount,
                             CountIf(result.errors, LAMBDA e : e = "FieldMismatch"),
                             Len(result.errors), rowsQualityScore(rows))]>>

\* parseWithHeader after Papa.parse.  result.meta.fields is always set by a header
\* parse, so headerCount is its length.
headerCandidate(result) ==
    LET rows == normalizeRows(result.data)
        headerCount == Len(result.fields)
    IN IF headerCount < 2 \/ Len(rows) = 0 THEN <<>>
       ELSE LET mismatchCount == CountIf(result.errors, LAMBDA e : e = "FieldMismatch")
                errorCount == Len(result.errors)
                quality == rowsQualityScore(rows)
            IN <<[rows |-> rows,
                  score |-> headerScore(Len(rows), headerCount, mismatchCount,
                                        errorCount, quality)]>>

parseWithHeader(text, delimiter) == headerCandidate(PapaParse(text, delimiter, TRUE))

\* mutant of uniqueHeaders: a repeated name gets the number of earlier occurrences
uniqueHeaders_CountsFromOne(headers) ==
    LET RECURSIVE go(_, _, _)
        go(index, used, out) ==
            IF index > Len(headers) THEN out
            ELSE LET base == IF Trim(headers[index]) # <<>> THEN Trim(headers[index])
                             ELSE StrCol \o NumStr(index)
                     count == IF HasKey(used, base) THEN used[GetKey(used, base)][2] ELSE 0
                 IN go(index + 1, Put(used, base, count + 1),
                       Append(out, IF count = 0 THEN base
                                   ELSE base \o StrUnderscore \o NumStr(count)))
    IN go(1, <<>>, <<>>)

uniqueHeaders(headers) ==
    LET RECURSIVE go(_, _, _)
        go(index, used, out) ==
            IF index > Len(headers) THEN out
            ELSE LET base == IF Trim(headers[index]) # <<>> THEN Trim(headers[index])
                             ELSE StrCol \o NumStr(index)
                     count == IF HasKey(used, base) THEN used[GetKey(used, base)][2] ELSE 0
                 IN go(index + 1, Put(used, base, count + 1),
                       Append(out, IF count = 0 THEN base
                                   ELSE base \o StrUnderscore \o NumStr(count + 1)))
    IN go(1, <<>>, <<>>)

\* row.filter((value) => String(value ?? "").trim().length > 0).length >= 2
IsHeaderRow(row) == CountIf(row, LAMBDA cell : Trim(cell) # <<>>) >= 2

\* matrix.findIndex(...): 0 when no row qualifies (the code's -1), else 1-based
findHeaderIndex(matrix) ==
    LET hits == {i \in 1..Len(matrix) : IsHeaderRow(matrix[i])}
    IN IF hits = {} THEN 0 ELSE CHOOSE i \in hits : \A j \in hits : i <= j

\* the record of one grid row: record[header] = String(row[index] ?? "").trim()
matrixRecord(headers, row) ==
    LET RECURSIVE go(_, _)
        go(index, record) ==
            IF index > Len(headers) THEN record
            ELSE go(index + 1, Put(record, headers[index],
                                   IF index <= Len(row) THEN Trim(row[index]) ELSE <<>>))
    IN go(1, <<>>)

\* mutant of matrixScore: the row weight of the header strategy
matrixScore_HeaderWeight(rowCount, headerCount, errorCount, quality) ==
    rowCount * 10 + headerCount * 3 - errorCount * 2 + quality

\* rows.length * 8 + headers.length * 3 - result.errors.length * 2 + quality
matrixScore(rowCount, headerCount, errorCount, quality) ==
    rowCount * 8 + headerCount * 3 - errorCount * 2 + quality

\* mutant of matrixCandidate: matrix.slice(headerIndex) keeps the header row as data
matrixCandidate_KeepsHeaderRow(result) ==
    LET matrix == result.data
        headerIndex == findHeaderIndex(matrix)
    IN IF Len(matrix) < 2 THEN <<>>
       ELSE IF headerIndex = 0 \/ headerIndex >= Len(matrix) THEN <<>>
       ELSE LET headers == uniqueHeaders([i \in 1..Len(matrix[headerIndex]) |->
                                             Trim(matrix[headerIndex][i])])
                below == SubSeq(matrix, headerIndex, Len(matrix))
                rows == FilterSeq([i \in 1..Len(below) |-> matrixRecord(headers, below[i])],
                                  SomeValue)
            IN IF Len(headers) < 2 THEN <<>>
               ELSE IF Len(rows) = 0 THEN <<>>
               ELSE <<[rows |-> rows,
                       score |-> matrixScore(Len(rows), Len(headers),
                                             Len(result.errors), rowsQualityScore(rows))]>>

\* parseWithMatrix after Papa.parse; every element of result.data is an array
matrixCandidate(result) ==
    LET matrix == result.data
        headerIndex == findHeaderIndex(matrix)
    IN IF Len(matrix) < 2 THEN <<>>
       ELSE IF headerIndex = 0 \/ headerIndex >= Len(matrix) THEN <<>>
       ELSE LET headers == uniqueHeaders([i \in 1..Len(matrix[headerIndex]) |->
                                             Trim(matrix[headerIndex][i])])
                below == SubSeq(matrix, headerIndex + 1, Len(matrix))
                rows == FilterSeq([i \in 1..Len(below) |-> matrixRecord(headers, below[i])],
                                  SomeValue)
            IN IF Len(headers) < 2 THEN <<>>
               ELSE IF Len(rows) = 0 THEN <<>>
               ELSE <<[rows |-> rows,
                       score |-> matrixScore(Len(rows), Len(headers),
                                             Len(result.errors), rowsQualityScore(rows))]>>

parseWithMatrix(text, delimiter) == matrixCandidate(PapaParse(text, delimiter, FALSE))

----------------------------------------------------------------------------
(* new TextDecoder(encoding).decode(bytes): the decoders of the Encoding   *)
(* Standard, in replacement (non-fatal) mode.                              *)

ENCODING_CANDIDATES == <<"utf-8", "euc-kr", "cp949", "utf-16le", "utf-16be">>
DELIMITER_CANDIDATES == <<44, 59, 9, 124, 65292>>

\* the UTF-16 code units of a code point
CodeUnits(cp) ==
    IF cp < 65536 THEN <<cp>>
    ELSE <<55296 + ((cp - 65536) \div 1024), 56320 + ((cp - 65536) % 1024)>>

\* the UTF-8 decoder
Utf8Decode(bytes) ==
    LET RECURSIVE go(_, _, _, _, _, _)
        go(i, cp, needed, lower, upper, out) ==
            IF i > Len(bytes)
            THEN IF needed # 0 THEN Append(out, ReplacementChar) ELSE out
            ELSE LET b == bytes[i]
                 IN IF needed = 0
                    THEN IF b <= 127 THEN go(i + 1, 0, 0, 128, 191, Append(out, b))
                         ELSE IF b >= 194 /\ b <= 223
                              THEN go(i + 1, b % 32, 1, 128, 191, out)
                         ELSE IF b >= 224 /\ b <= 239
                              THEN go(i + 1, b % 16, 2, IF b = 224 THEN 160 ELSE 128,
                                      IF b = 237 THEN 159 ELSE 191, out)
                         ELSE IF b >= 240 /\ b <= 244
                              THEN go(i + 1, b % 8, 3, IF b = 240 THEN 144 ELSE 128,
                                      IF b = 244 THEN 143 ELSE 191, out)
                         ELSE go(i + 1, 0, 0, 128, 191, Append(out, ReplacementChar))
                    ELSE IF b < lower \/ b > upper
                         THEN go(i, 0, 0, 128, 191, Append(out, ReplacementChar))
                    ELSE IF needed = 1
                         THEN go(i + 1, 0, 0, 128, 191, out \o CodeUnits(cp * 64 + (b % 64)))
                    ELSE go(i + 1, cp * 64 + (b % 64), needed - 1, 128, 191, out)
    IN go(1, 0, 0, 128, 191, <<>>)

\* the UTF-16 decoder
Utf16Decode(bytes, bigEndian) ==
    LET unit(i) == IF bigEndian THEN bytes[i] * 256 + bytes[i + 1]
                   ELSE bytes[i + 1] * 256 + bytes[i]
        IsLead(u) == u >= 55296 /\ u <= 56319
        IsTrail(u) == u >= 56320 /\ u <= 57343
        RECURSIVE go(_, _)
        go(i, out) ==
            IF i > Len(bytes) THEN out
            ELSE IF i = Len(bytes) THEN Append(out, ReplacementChar)
            ELSE IF IsLead(unit(i))
                 THEN IF i + 3 > Len(bytes) THEN Append(out, ReplacementChar)
                      ELSE IF IsTrail(unit(i + 2))
                           THEN go(i + 4, out \o <<unit(i), unit(i + 2)>>)
                      ELSE go(i + 2, Append(out, ReplacementChar))
            ELSE IF IsTrail(unit(i)) THEN go(i + 2, Append(out, ReplacementChar))
            ELSE go(i + 2, Append(out, unit(i)))
    IN go(1, <<>>)

\* index euc-kr, restricted to the byte pairs the modelled buffers hold:
\* EA B0 -> U+5A9B, B0 A1 -> U+AC00, AC 61 -> U+CD21, C1 61 -> U+D58C; 0 for a pair
\* outside the index
EucKrIndex(lead, byte) ==
    IF byte < 65 \/ byte > 254 THEN 0
    ELSE IF <<lead, byte>> = <<234, 176>> THEN 23195
    ELSE IF <<lead, byte>> = <<176, 161>> THEN 44032
    ELSE IF <<lead, byte>> = <<172, 97>> THEN 52513
    ELSE IF <<lead, byte>> = <<193, 97>> THEN 54668
    ELSE 0

\* the EUC-KR decoder
EucKrDecode(bytes) ==
    LET RECURSIVE go(_, _, _)
        go(i, lead, out) ==
            IF i > Len(bytes)
            THEN IF lead # 0 THEN Append(out, ReplacementChar) ELSE out
            ELSE LET b == bytes[i]
                 IN IF lead # 0
                    THEN IF EucKrIndex(lead, b) # 0
                         THEN go(i + 1, 0, Append(out, EucKrIndex(lead, b)))
                         ELSE IF b <= 127 THEN go(i, 0, Append(out, ReplacementChar))
                         ELSE go(i + 1, 0, Append(out, ReplacementChar))
                    ELSE IF b <= 127 THEN go(i + 1, 0, Append(out, b))
                    ELSE IF b >= 129 /\ b <= 254 THEN go(i + 1, b, out)
                    ELSE go(i + 1, 0, Append(out, ReplacementChar))
    IN go(1, 0, <<>>)

\* new TextDecoder(encoding) throws a RangeError for a label the Encoding Standard
\* does not list: "cp949" is none of the labels of EUC-KR
IsEncodingLabel(encoding) == encoding \in {"utf-8", "euc-kr", "utf-16le", "utf-16be"}

\* TextDecoder.decode: UTF-8 and UTF-16 decoders drop a leading byte order mark
TextDecode(bytes, encoding) ==
    IF encoding = "utf-8" THEN StripBom(Utf8Decode(bytes))
    ELSE IF encoding = "utf-16le" THEN StripBom(Utf16Decode(bytes, FALSE))
    ELSE IF encoding = "utf-16be" THEN StripBom(Utf16Decode(bytes, TRUE))
    ELSE EucKrDecode(bytes)

\* <<>> for null, <<text>> for a decoded and normalized text
decodeWithEncoding(bytes, encoding) ==
    IF IsEncodingLabel(encoding) THEN <<normalizeText(TextDecode(bytes, encoding))>>
    ELSE <<>>

----------------------------------------------------------------------------
(* parseCsvBuffer *)

ZipMagic == <<80, 75, 3, 4>>

\* mutant of isLikelyXlsx: the length test is off by one
isLikelyXlsx_LongerThanMagic(bytes) == Len(bytes) > 4 /\ SubSeq(bytes, 1, 4) = ZipMagic

isLikelyXlsx(bytes) == Len(bytes) >= 4 /\ SubSeq(bytes, 1, 4) = ZipMagic

\* the candidates one decoded text adds to the pool, in the order of the pushes
textCandidates(text) ==
    LET RECURSIVE go(_)
        go(d) == IF d > Len(DELIMITER_CANDIDATES) THEN <<>>
                 ELSE parseWithHeader(text, <<DELIMITER_CANDIDATES[d]>>)
                      \o parseWithMatrix(text, <<DELIMITER_CANDIDATES[d]>>)
                      \o go(d + 1)
    IN parseWithHeader(text, <<>>) \o go(1)

\* one iteration of the loop over ENCODING_CANDIDATES
encodingCandidates(bytes, encoding) ==
    LET text == decodeWithEncoding(bytes, encoding)
    IN IF text = <<>> \/ text[1] = <<>> THEN <<>> ELSE textCandidates(text[1])

\* candidates.sort((a, b) => b.score - a.score)[0]: the sort is stable, so the best
\* candidate is the first one of the pool with the highest score
\* mutant of bestCandidate: the pool is not sorted
bestCandidate_Unsorted(pool) == pool[1]

\* mutant of bestCandidate: of the candidates with the highest score the last one
bestCandidate_LastOfTies(pool) ==
    pool[CHOOSE i \in 1..Len(pool) :
            /\ \A j \in 1..Len(pool) : pool[j].score <= pool[i].score
            /\ \A j \in (i + 1)..Len(pool) : pool[j].score < pool[i].score]

bestCandidate(pool) ==
    pool[CHOOSE i \in 1..Len(pool) :
            /\ \A j \in 1..Len(pool) : pool[j].score <= pool[i].score
            /\ \A j \in 1..(i - 1) : pool[j].score < pool[i].score]

----------------------------------------------------------------------------
(* The buffers given to parseCsvBuffer: every text of at most MaxChars     *)
(* characters over TextAlphabet, encoded in one of SourceEncodings, alone  *)
(* or behind the ZIP magic number.                                         *)

MaxChars == 5

\* "," "\n" "a" and the Hangul syllable U+AC00
TextAlphabet == {44, 10, 97, 44032}

SourceEncodings == {"utf-8", "euc-kr", "utf-16le", "utf-16be"}

SeqsUpTo(S, n) == UNION {[1..k -> S] : k \in 0..n}

EncodeChar(c, encoding) ==
    IF encoding = "utf-16le" THEN <<c % 256, c \div 256>>
    ELSE IF encoding = "utf-16be" THEN <<c \div 256, c % 256>>
    ELSE IF c < 128 THEN <<c>>
    ELSE IF encoding = "utf-8" THEN <<234, 176, 128>>
    ELSE <<176, 161>>

Encode(text, encoding) == Flatten([i \in 1..Len(text) |-> EncodeChar(text[i], encoding)])

Buffers ==
    {prefix \o Encode(text, encoding) :
        prefix \in {<<>>, ZipMagic}, text \in SeqsUpTo(TextAlphabet, MaxChars),
        encoding \in SourceEncodings}

----------------------------------------------------------------------------
(* Spec: one call of parseCsvBuffer *)

\* the result variable of a function-level specification before the call
NoResult == [fn |-> "none"]

Init ==
    /\ buffer \in Buffers
    /\ pc = "check"
    /\ encIndex = 1
    /\ candidates = <<>>
    /\ outcome = "none"
    /\ returned = <<>>
    /\ fnIn = <<>>
    /\ fnOut = NoResult
    /\ NoSessions
    /\ NoDashboard

\* if (isLikelyXlsx(buffer)) throw ...
CheckXlsx ==
    /\ pc = "check"
    /\ IF isLikelyXlsx(buffer)
       THEN pc' = "done" /\ outcome' = "xlsx"
       ELSE pc' = "encodings" /\ outcome' = outcome
    /\ UNCHANGED <<buffer, encIndex, candidates, returned, fnIn, fnOut>>
    /\ UNCHANGED <<storeVars, dashVars>>

\* mutant of TryEncoding: an encoding that cannot be decoded ends the call
TryEncoding_FailureFatal ==
    /\ pc = "encodings"
    /\ encIndex <= Len(ENCODING_CANDIDATES)
    /\ IF decodeWithEncoding(buffer, ENCODING_CANDIDATES[encIndex]) = <<>>
       THEN /\ pc' = "done"
            /\ outcome' = "unrecognized"
            /\ UNCHANGED <<candidates, encIndex>>
       ELSE /\ candidates' = candidates
                                \o encodingCandidates(buffer, ENCODING_CANDIDATES[encIndex])
            /\ encIndex' = encIndex + 1
            /\ UNCHANGED <<pc, outcome>>
    /\ UNCHANGED <<buffer, returned, fnIn, fnOut>>
    /\ UNCHANGED <<storeVars, dashVars>>

\* for (const encoding of ENCODING_CANDIDATES) { ... }
TryEncoding ==
    /\ pc = "encodings"
    /\ encIndex <= Len(ENCODING_CANDIDATES)
    /\ candidates' = candidates \o encodingCandidates(buffer, ENCODING_CANDIDATES[encIndex])
    /\ encIndex' = encIndex + 1
    /\ UNCHANGED <<buffer, pc, outcome, returned, fnIn, fnOut>>
    /\ UNCHANGED <<storeVars, dashVars>>

\* if (candidates.length === 0) throw ...; return best.rows
Select ==
    /\ pc = "encodings"
    /\ encIndex > Len(ENCODING_CANDIDATES)
    /\ pc' = "done"
    /\ IF Len(candidates) = 0
       THEN /\ outcome' = IF isLikelyXlsx(buffer) THEN "xlsx-empty" ELSE "unrecognized"
            /\ returned' = returned
       ELSE /\ outcome' = "rows"
            /\ returned' = bestCandidate(candidates).rows
    /\ UNCHANGED <<buffer, encIndex, candidates, fnIn, fnOut>>
    /\ UNCHANGED <<storeVars, dashVars>>

Next == CheckXlsx \/ TryEncoding \/ Select

Spec == Init /\ [][Next]_vars

----------------------------------------------------------------------------
(* SpecParse: one call of a parse strategy on a normalized text.  The      *)
(* texts are all strings of at most MaxText characters over ParseAlphabet; *)
(* parseCsvBuffer calls parseWithHeader without a delimiter and with a     *)
(* forced one, parseWithMatrix only with a forced one.                     *)

MaxText == 7

\* "," "\n" "a" and " "
ParseAlphabet == {44, 10, 97, 32}

Idle ==
    /\ buffer = <<>>
    /\ encIndex = 1
    /\ candidates = <<>>
    /\ outcome = "none"
    /\ returned = <<>>
    /\ NoSessions
    /\ NoDashboard

InitParse ==
    /\ Idle
    /\ pc = "call"
    /\ fnIn \in SeqsUpTo(ParseAlphabet, MaxText)
    /\ fnOut = NoResult

CallParseWithHeader ==
    /\ pc = "call"
    /\ \E delimiter \in {<<>>, StrComma} :
          fnOut' = [fn |-> "parseWithHeader", delimiter |-> delimiter,
                    result |-> parseWithHeader(fnIn, delimiter)]
    /\ pc' = "done"
    /\ UNCHANGED <<buffer, encIndex, candidates, outcome, returned, fnIn>>
    /\ UNCHANGED <<storeVars, dashVars>>

CallParseWithMatrix ==
    /\ pc = "call"
    /\ fnOut' = [fn |-> "parseWithMatrix", delimiter |-> StrComma,
                 result |-> parseWithMatrix(fnIn, StrComma)]
    /\ pc' = "done"
    /\ UNCHANGED <<buffer, encIndex, candidates, outcome, returned, fnIn>>
    /\ UNCHANGED <<storeVars, dashVars>>

NextParse == CallParseWithHeader \/ CallParseWithMatrix

SpecParse == InitParse /\ [][NextParse]_vars

----------------------------------------------------------------------------
(* SpecHeaders: one call of uniqueHeaders on a list of at most MaxHeaders  *)
(* header cells.                                                           *)

MaxHeaders == 3

\* "", "a", "b", " a" and "a_2"
HeaderCells == {<<>>, <<97>>, <<98>>, <<32, 97>>, <<97, 95, 50>>}

InitHeaders ==
    /\ Idle
    /\ pc = "call"
    /\ fnIn \in SeqsUpTo(HeaderCells, MaxHeaders)
    /\ fnOut = NoResult

CallUniqueHeaders ==
    /\ pc = "call"
    /\ fnOut' = [fn |-> "uniqueHeaders", result |-> uniqueHeaders(fnIn)]
    /\ pc' = "done"
    /\ UNCHANGED <<buffer, encIndex, candidates, outcome, returned, fnIn>>
    /\ UNCHANGED <<storeVars, dashVars>>

NextHeaders == CallUniqueHeaders

SpecHeaders == InitHeaders /\ [][NextHeaders]_vars

----------------------------------------------------------------------------
(* SpecMatrix: parseWithMatrix from the result of Papa.parse on: a grid of *)
(* at most MaxGridRows rows of 1..MaxGridCols cells, none of them blank    *)
(* (skipEmptyLines removed the blank ones), and the list of parse errors.  *)

MaxGridRows == 2
MaxGridCols == 3

\* "", "a" and "a_2"
GridCells == {<<>>, <<97>>, <<97, 95, 50>>}

GridRows ==
    {row \in UNION {[1..k -> GridCells] : k \in 1..MaxGridCols} : ~PapaEmptyLine(row)}

InitMatrix ==
    /\ Idle
    /\ pc = "call"
    /\ fnIn \in {[data |-> grid, errors |-> errors, fields |-> <<>>] :
                    grid \in SeqsUpTo(GridRows, MaxGridRows),
                    errors \in {<<>>, <<"Quotes">>}}
    /\ fnOut = NoResult

CallMatrixCandidate ==
    /\ pc = "call"
    /\ fnOut' = [fn |-> "matrixCandidate", result |-> matrixCandidate(fnIn)]
    /\ pc' = "done"
    /\ UNCHANGED <<buffer, encIndex, candidates, outcome, returned, fnIn>>
    /\ UNCHANGED <<storeVars, dashVars>>

NextMatrix == CallMatrixCandidate

SpecMatrix == InitMatrix /\ [][NextMatrix]_vars

----------------------------------------------------------------------------
(* SpecQuality: one call of rowsQualityScore on a table of at most         *)
(* MaxQualityRows rows and MaxQualityCols columns named col_1, col_2, ...  *)
(* whose cells are "a" except one marked cell.                             *)

MaxQualityRows == 9
MaxQualityCols == 7

\* "", "a", U+FFFD, U+0001, "a\va" and "#"
QualityMarks == {<<>>, <<97>>, <<65533>>, <<1>>, <<97, 11, 97>>, <<35>>}

QualityTable(nRows, nCols, r, c, mark) ==
    [i \in 1..nRows |->
        [j \in 1..nCols |->
            <<StrCol \o NumStr(j), IF i = r /\ j = c THEN mark ELSE <<97>>>>]]

QualityTables ==
    {<<>>} \cup
    {QualityTable(nRows, nCols, r, c, mark) :
        <<nRows, r>> \in {x \in (1..MaxQualityRows) \X (1..MaxQualityRows) : x[2] <= x[1]},
        <<nCols, c>> \in {x \in (1..MaxQualityCols) \X (1..MaxQualityCols) : x[2] <= x[1]},
        mark \in QualityMarks}

InitQuality ==
    /\ Idle
    /\ pc = "call"
    /\ fnIn \in QualityTables
    /\ fnOut = NoResult

CallRowsQualityScore ==
    /\ pc = "call"
    /\ fnOut' = [fn |-> "rowsQualityScore", result |-> rowsQualityScore(fnIn)]
    /\ pc' = "done"
    /\ UNCHANGED <<buffer, encIndex, candidates, outcome, returned, fnIn>>
    /\ UNCHANGED <<storeVars, dashVars>>

NextQuality == CallRowsQualityScore

SpecQuality == InitQuality /\ [][NextQuality]_vars

----------------------------------------------------------------------------
(* Claims about parseCsvBuffer, checked under Spec *)

StartsWithZipMagic ==
    /\ Len(buffer) >= 4
    /\ buffer[1] = 80 /\ buffer[2] = 75 /\ buffer[3] = 3 /\ buffer[4] = 4

\* every candidate the five encodings produce for a buffer, in generation order
AllCandidates(bytes) ==
    Flatten([e \in 1..Len(ENCODING_CANDIDATES) |->
                encodingCandidates(bytes, ENCODING_CANDIDATES[e])])

\* C1: a buffer that starts with 50 4B 03 04 is rejected with the XLSX error whatever
\* follows, before an encoding is decoded or a candidate is generated
C1_XlsxRejectedFirst ==
    (StartsWithZipMagic /\ pc # "check")
        => /\ pc = "done"
           /\ outcome = "xlsx"
           /\ encIndex = 1
           /\ candidates = <<>>
           /\ returned = <<>>

\* the rejected buffer holds a table behind the magic number
C1_Witness ==
    /\ StartsWithZipMagic
    /\ outcome = "xlsx"
    /\ Len(buffer) > 4
    /\ AllCandidates(buffer) # <<>>

\* C2: a call ends with one error and no rows, or with at least one row, every row
\* holding a non-empty value; it reports an error only for the ZIP magic number or an
\* empty pool
C2_RowsOrError ==
    pc = "done"
        => \/ /\ outcome = "xlsx" /\ StartsWithZipMagic /\ returned = <<>>
           \/ /\ outcome \in {"unrecognized", "xlsx-empty"}
              /\ candidates = <<>>
              /\ returned = <<>>
           \/ /\ outcome = "rows"
              /\ Len(returned) >= 1
              /\ \A i \in 1..Len(returned) : SomeValue(returned[i])

\* rows are returned, one of them with an empty value beside a non-empty one
C2_Witness ==
    /\ pc = "done"
    /\ outcome = "rows"
    /\ \E i \in 1..Len(returned) : \E j \in 1..Len(returned[i]) : returned[i][j][2] = <<>>

\* C3: the returned rows are those of a candidate whose score is at least the score
\* of every candidate of every encoding, delimiter and strategy
C3_BestOfAllEncodings ==
    (pc = "done" /\ outcome = "rows")
        => LET all == AllCandidates(buffer)
           IN /\ candidates = all
              /\ \E i \in 1..Len(all) :
                    /\ all[i].rows = returned
                    /\ \A j \in 1..Len(all) : all[j].score <= all[i].score

\* UTF-8 yields candidates and a later encoding yields a strictly better one, whose
\* rows are returned
C3_Witness ==
    /\ pc = "done"
    /\ outcome = "rows"
    /\ LET first == encodingCandidates(buffer, "utf-8")
       IN /\ first # <<>>
          /\ \A i \in 1..Len(first) :
                first[i].score < bestCandidate(candidates).score /\ first[i].rows # returned

----------------------------------------------------------------------------
(* Claims about the parse strategies, checked under SpecParse *)

HeaderCall == pc = "done" /\ fnOut.fn = "parseWithHeader"
MatrixCall == pc = "done" /\ fnOut.fn = "parseWithMatrix"

\* what Papa.parse reported to the call
PapaOfCall == PapaParse(fnIn, fnOut.delimiter, fnOut.fn = "parseWithHeader")

MismatchErrors == CountIf(PapaOfCall.errors, LAMBDA e : e = "FieldMismatch")
OtherErrors == CountIf(PapaOfCall.errors, LAMBDA e : e # "FieldMismatch")

\* C4 as claimed: a header candidate scores 10*rows + 3*columns - mismatches
\* - 2*(errors other than mismatches) + quality
C4_ScoreAsClaimed ==
    (HeaderCall /\ fnOut.result # <<>>)
        => LET c == fnOut.result[1]
           IN c.score = 10 * Len(c.rows) + 3 * Len(PapaOfCall.fields) - MismatchErrors
                            - 2 * OtherErrors + rowsQualityScore(c.rows)

\* C4 amended: a header candidate scores 10*rows + 3*columns - 3*mismatches
\* - 2*(errors other than mismatches) + quality
C4_HeaderScore ==
    (HeaderCall /\ fnOut.result # <<>>)
        => LET c == fnOut.result[1]
           IN c.score = 10 * Len(c.rows) + 3 * Len(PapaOfCall.fields) - 3 * MismatchErrors
                            - 2 * OtherErrors + rowsQualityScore(c.rows)

\* a header candidate whose parse reported a field mismatch and another error
C4_Witness ==
    /\ HeaderCall
    /\ fnOut.result # <<>>
    /\ MismatchErrors >= 1
    /\ OtherErrors >= 1

\* the grid of a matrix call, its header row and the cells of a row under the header
GridOfCall == PapaOfCall.data
NonBlankCells(row) == CountIf(row, LAMBDA cell : Trim(cell) # <<>>)
HeaderRows == {i \in 1..Len(GridOfCall) : NonBlankCells(GridOfCall[i]) >= 2}
FirstHeaderRow == CHOOSE i \in HeaderRows : \A j \in HeaderRows : i <= j
CellsUnderHeader(j) ==
    [i \in 1..Len(GridOfCall[FirstHeaderRow]) |->
        IF i <= Len(GridOfCall[j]) THEN Trim(GridOfCall[j][i]) ELSE <<>>]
DataRows ==
    {j \in (FirstHeaderRow + 1)..Len(GridOfCall) :
        \E i \in 1..Len(GridOfCall[FirstHeaderRow]) : CellsUnderHeader(j)[i] # <<>>}

DistinctNonEmptyNames == {PapaOfCall.fields[i] : i \in 1..Len(PapaOfCall.fields)} \ {<<>>}
NoDataRowRemains == Len(normalizeRows(PapaOfCall.data)) = 0

\* C7 as claimed: no header candidate when the header row has fewer than 2 distinct
\* non-empty names or no data row remains
C7_RejectedAsClaimed ==
    (HeaderCall /\ (Cardinality(DistinctNonEmptyNames) < 2 \/ NoDataRowRemains))
        => fnOut.result = <<>>

\* C7 amended: no header candidate when the header row has fewer than 2 columns,
\* whatever their names, or no data row remains
C7_HeaderRejected ==
    (HeaderCall /\ (Len(PapaOfCall.fields) < 2 \/ NoDataRowRemains))
        => fnOut.result = <<>>

\* a header parse with one column and a data row is rejected
C7_Witness ==
    /\ HeaderCall
    /\ Len(PapaOfCall.fields) = 1
    /\ ~NoDataRowRemains
    /\ fnOut.result = <<>>

\* C8: the matrix header is the first row with at least 2 non-blank cells; the rows
\* above it are discarded and the rows below it are the data; no candidate when no
\* row qualifies or the header row is the last row
C8_MatrixHeaderRow ==
    MatrixCall
        => IF HeaderRows = {} \/ FirstHeaderRow = Len(GridOfCall)
           THEN fnOut.result = <<>>
           ELSE fnOut.result # <<>>
                => LET rows == fnOut.result[1].rows
                       header == GridOfCall[FirstHeaderRow]
                       data == FilterSeq([j \in 1..(Len(GridOfCall) - FirstHeaderRow) |->
                                             FirstHeaderRow + j],
                                         LAMBDA j : j \in DataRows)
                   IN /\ Len(rows) = Len(data)
                      /\ \A k \in 1..Len(rows) :
                            /\ Len(rows[k]) >= 2
                            /\ RowValues(rows[k]) = CellsUnderHeader(data[k])
                            /\ \A i \in 1..Len(header) :
                                  (Trim(header[i]) # <<>>
                                   /\ \A h \in 1..(i - 1) : Trim(header[h]) # Trim(header[i]))
                                      => rows[k][i][1] = Trim(header[i])

\* a matrix candidate whose header row is not the first row of the grid
C8_Witness ==
    /\ MatrixCall
    /\ fnOut.result # <<>>
    /\ FirstHeaderRow >= 2

----------------------------------------------------------------------------
(* Claim about rowsQualityScore, checked under SpecQuality *)

QualityCall == pc = "done" /\ fnOut.fn = "rowsQualityScore"

\* the strings of the sample: the names of the first row, then the values of the
\* first 6 columns of the first 8 rows
SamplePieces(rows) ==
    RowKeys(rows[1]) \o
    Flatten([i \in 1..(IF Len(rows) < 8 THEN Len(rows) ELSE 8) |->
                [j \in 1..(IF Len(rows[i]) < 6 THEN Len(rows[i]) ELSE 6) |-> rows[i][j][2]]])

\* the characters of the strings of a list that satisfy P
CharsIn(pieces, P(_)) ==
    LET RECURSIVE sum(_)
        sum(i) == IF i > Len(pieces) THEN 0 ELSE CountIf(pieces[i], P) + sum(i + 1)
    IN sum(1)

\* the table with every value outside the sample replaced by the replacement
\* character
OutsideReplaced(rows) ==
    [i \in 1..Len(rows) |->
        [j \in 1..Len(rows[i]) |->
            IF i > 8 \/ j > 6 THEN <<rows[i][j][1], <<ReplacementChar>>>> ELSE rows[i][j]]]

----------------------------------------------------------------------------
(* Claim about uniqueHeaders, checked under SpecHeaders *)

HeadersCall == pc = "done" /\ fnOut.fn = "uniqueHeaders"

\* the name of cell i before de-duplication and its number among the equal names
BaseName(headers, i) ==
    IF Trim(headers[i]) = <<>> THEN StrCol \o NumStr(i) ELSE Trim(headers[i])
Occurrence(headers, i) ==
    Cardinality({j \in 1..i : BaseName(headers, j) = BaseName(headers, i)})

\* C9: the first occurrence of a trimmed name is kept, its k-th occurrence becomes
\* <name>_k, a blank cell at 0-based position i is first named col_<i+1>; [a, a, b]
\* gives [a, a_2, b]; the output is as long as the input
C9_UniqueHeaders ==
    HeadersCall
        => /\ Len(fnOut.result) = Len(fnIn)
           /\ \A i \in 1..Len(fnIn) :
                 fnOut.result[i] =
                     IF Occurrence(fnIn, i) = 1 THEN BaseName(fnIn, i)
                     ELSE BaseName(fnIn, i) \o StrUnderscore \o NumStr(Occurrence(fnIn, i))
           /\ fnIn = <<<<97>>, <<97>>, <<98>>>>
                 => fnOut.result = <<<<97>>, <<97, 95, 50>>, <<98>>>>

\* the headers [a, a, b] were renamed
C9_Witness ==
    /\ HeadersCall
    /\ fnIn = <<<<97>>, <<97>>, <<98>>>>
    /\ fnOut.result = <<<<97>>, <<97, 95, 50>>, <<98>>>>

----------------------------------------------------------------------------
(* Claim about the rows of a matrix candidate, checked under SpecMatrix *)

MatrixCandidateCall == pc = "done" /\ fnOut.fn = "matrixCandidate"

HeaderRowOf(grid) ==
    CHOOSE i \in 1..Len(grid) :
        /\ NonBlankCells(grid[i]) >= 2
        /\ \A j \in 1..(i - 1) : NonBlankCells(grid[j]) < 2

\* C10: every row of a matrix candidate has exactly the de-duplicated header names
\* as keys and holds, under header i, the trimmed cell i of its grid row or "" when
\* the grid row is shorter; rows with only empty values are dropped
C10_MatrixRows ==
    (MatrixCandidateCall /\ fnOut.result # <<>>)
        => LET grid == fnIn.data
               h == HeaderRowOf(grid)
               names == uniqueHeaders([i \in 1..Len(grid[h]) |-> Trim(grid[h][i])])
               cells(j) == [i \in 1..Len(names) |->
                               IF i <= Len(grid[j]) THEN Trim(grid[j][i]) ELSE <<>>]
               data == FilterSeq([j \in 1..(Len(grid) - h) |-> h + j],
                                 LAMBDA j : \E i \in 1..Len(names) : cells(j)[i] # <<>>)
               rows == fnOut.result[1].rows
           IN /\ Len(rows) = Len(data)
              /\ \A k \in 1..Len(rows) :
                    /\ RowKeys(rows[k]) = names
                    /\ \A i \in 1..Len(names) :
                          /\ HasKey(rows[k], names[i])
                          /\ rows[k][GetKey(rows[k], names[i])][2] = cells(data[k])[i]

----------------------------------------------------------------------------
(* Tables as texts.  A table is a record of title lines, header cells and  *)
(* data rows of cells; its text joins the cells of a line with "," and the *)
(* lines with "\n".                                                        *)

LineText(cells) == Join(cells, StrComma)

TableText(table) ==
    Join(table.titles
            \o <<LineText(table.header)>>
            \o [i \in 1..Len(table.rows) |-> LineText(table.rows[i])],
         <<LineFeed>>)

BlankCells(cells) == \A i \in 1..Len(cells) : Trim(cells[i]) = <<>>

\* the rows a table stands for: every data row with a non-blank cell, keyed by the
\* trimmed header names, the values trimmed, in the order of the text
ExpectedRows(table) ==
    LET record(cells) == [i \in 1..Len(table.header) |->
                             <<Trim(table.header[i]), Trim(cells[i])>>]
        kept == FilterSeq(table.rows, LAMBDA cells : ~BlankCells(cells))
    IN [k \in 1..Len(kept) |-> record(kept[k])]

----------------------------------------------------------------------------
(* SpecTitled: one call of parseCsvBuffer on the UTF-8 text of a table     *)
(* with the header "b,c" behind two title lines.  A title line is "a",     *)
(* "a;a" or "a,": under the table's delimiter "," each has fewer than 2    *)
(* non-blank cells.                                                        *)

MaxTitledRows == 2

TitleLines == {<<97>>, <<97, 59, 97>>, <<97, 44>>}

TitledCells == {<<>>, <<97>>}

TitledTables ==
    {[titles |-> <<t1, t2>>, header |-> <<<<98>>, <<99>>>>, rows |-> rows] :
        t1 \in TitleLines, t2 \in TitleLines,
        rows \in {r \in UNION {[1..n -> [1..2 -> TitledCells]] : n \in 1..MaxTitledRows} :
                     \A i \in 1..Len(r) : ~BlankCells(r[i])}}

InitTitled ==
    /\ fnIn \in TitledTables
    /\ buffer = Encode(TableText(fnIn), "utf-8")
    /\ pc = "check"
    /\ encIndex = 1
    /\ candidates = <<>>
    /\ outcome = "none"
    /\ returned = <<>>
    /\ fnOut = NoResult
    /\ NoSessions
    /\ NoDashboard

SpecTitled == InitTitled /\ [][Next]_vars

----------------------------------------------------------------------------
(* Claim about leading title lines, checked under SpecTitled *)

\* C11: for a table behind 2 title lines, each with fewer than 2 non-blank cells under
\* the table's delimiter, parseCsvBuffer returns the data rows keyed by the real
\* header row; the title lines are neither keys nor rows
C11_TitleLinesSkipped ==
    pc = "done" => (outcome = "rows" /\ returned = ExpectedRows(fnIn))

----------------------------------------------------------------------------
(* SpecTable: one call of parseCsvBuffer on a comma-delimited table with   *)
(* the clean header " a ,<U+AC00>" and at most MaxTableRows data rows of   *)
(* 2 cells, at least one of them not blank, encoded in one of              *)
(* SourceEncodings.                                                        *)

MaxTableRows == 2

\* "", "a" and " <U+AC00> "
TableCells == {<<>>, <<97>>, <<32, 44032, 32>>}

CleanTables ==
    {[titles |-> <<>>, header |-> <<<<32, 97, 32>>, <<44032>>>>, rows |-> rows,
      encoding |-> encoding] :
        rows \in {r \in UNION {[1..n -> [1..2 -> TableCells]] : n \in 1..MaxTableRows} :
                     \E i \in 1..Len(r) : ~BlankCells(r[i])},
        encoding \in SourceEncodings}

InitTable ==
    /\ fnIn \in CleanTables
    /\ buffer = Encode(TableText(fnIn), fnIn.encoding)
    /\ pc = "check"
    /\ encIndex = 1
    /\ candidates = <<>>
    /\ outcome = "none"
    /\ returned = <<>>
    /\ fnOut = NoResult
    /\ NoSessions
    /\ NoDashboard

SpecTable == InitTable /\ [][Next]_vars

----------------------------------------------------------------------------
(* Claims about clean tables, checked under SpecTable *)

\* the candidates in generation order, computed from the pushes of the loops
MatrixCandidates(bytes) ==
    Flatten([e \in 1..Len(ENCODING_CANDIDATES) |->
        LET text == decodeWithEncoding(bytes, ENCODING_CANDIDATES[e])
        IN IF text = <<>> \/ text[1] = <<>> THEN <<>>
           ELSE Flatten([d \in 1..Len(DELIMITER_CANDIDATES) |->
                            parseWithMatrix(text[1], <<DELIMITER_CANDIDATES[d]>>)])])

SampleOf(c) ==
    Flatten(RowKeys(c.rows[1]))
        \o Flatten([r \in 1..Len(c.rows) |-> Flatten(RowValues(c.rows[r]))])
Damaged(c) ==
    \E i \in 1..Len(SampleOf(c)) :
        SampleOf(c)[i] = ReplacementChar \/ IsControl(SampleOf(c)[i])

----------------------------------------------------------------------------
(* SpecRepeat: at most MaxCalls calls of parseCsvBuffer, one after the     *)
(* other, on buffers of RepeatBuffers.  fnIn is the log of the completed   *)
(* calls.  The module keeps no state between calls: the pool is a local    *)
(* of the call (const candidates = []), the candidate lists are constants. *)

MaxCalls == 3

\* the empty buffer, the ZIP magic number, "a,a\na,a" and "a,a,a\na,a,a\na,," in
\* UTF-8, and "a,<U+AC00>\n<U+AC00>,a" in EUC-KR
RepeatBuffers ==
    {<<>>,
     ZipMagic,
     <<97, 44, 97, 10, 97, 44, 97>>,
     <<97, 44, 97, 44, 97, 10, 97, 44, 97, 44, 97, 10, 97, 44, 44>>,
     <<97, 44, 176, 161, 10, 176, 161, 44, 97>>}

InitRepeat ==
    /\ buffer \in RepeatBuffers
    /\ pc = "check"
    /\ encIndex = 1
    /\ candidates = <<>>
    /\ outcome = "none"
    /\ returned = <<>>
    /\ fnIn = <<>>
    /\ fnOut = NoResult
    /\ NoSessions
    /\ NoDashboard

\* mutant of CallAgain: the pool outlives the call
CallAgain_KeepsPool ==
    /\ pc = "done"
    /\ Len(fnIn) + 1 < MaxCalls
    /\ fnIn' = Append(fnIn, [buffer |-> buffer, outcome |-> outcome, returned |-> returned])
    /\ buffer' \in RepeatBuffers
    /\ pc' = "check"
    /\ encIndex' = 1
    /\ candidates' = candidates
    /\ outcome' = "none"
    /\ returned' = <<>>
    /\ UNCHANGED fnOut
    /\ UNCHANGED <<storeVars, dashVars>>

\* the next call of parseCsvBuffer: its locals are fresh
CallAgain ==
    /\ pc = "done"
    /\ Len(fnIn) + 1 < MaxCalls
    /\ fnIn' = Append(fnIn, [buffer |-> buffer, outcome |-> outcome, returned |-> returned])
    /\ buffer' \in RepeatBuffers
    /\ pc' = "check"
    /\ encIndex' = 1
    /\ candidates' = <<>>
    /\ outcome' = "none"
    /\ returned' = <<>>
    /\ UNCHANGED fnOut
    /\ UNCHANGED <<storeVars, dashVars>>

NextRepeat == CheckXlsx \/ TryEncoding \/ Select \/ CallAgain

SpecRepeat == InitRepeat /\ [][NextRepeat]_vars

----------------------------------------------------------------------------
(* Claim about repeated calls, checked under SpecRepeat *)

----------------------------------------------------------------------------
(* SpecBlank: one call of parseCsvBuffer on a blank text of at most        *)
(* MaxBlankChars characters over space, tab and line feed, encoded in one  *)
(* of SourceEncodings; the empty buffer is the empty text.                 *)

MaxBlankChars == 4

BlankAlphabet == {32, 9, 10}

InitBlank ==
    /\ fnIn \in {[text |-> text, encoding |-> encoding] :
                    text \in SeqsUpTo(BlankAlphabet, MaxBlankChars),
                    encoding \in SourceEncodings}
    /\ buffer = Encode(fnIn.text, fnIn.encoding)
    /\ pc = "check"
    /\ encIndex = 1
    /\ candidates = <<>>
    /\ outcome = "none"
    /\ returned = <<>>
    /\ fnOut = NoResult
    /\ NoSessions
    /\ NoDashboard

SpecBlank == InitBlank /\ [][Next]_vars

\* C15: for the empty buffer and for a buffer whose text is all blank no candidate is
\* produced under any encoding, delimiter or strategy, and parseCsvBuffer throws the
\* unrecognized-format error
C15_BlankRejected ==
    (pc = "done" /\ Trim(fnIn.text) = <<>>)
        => (candidates = <<>> /\ outcome = "unrecognized")

----------------------------------------------------------------------------
(* SpecSingle: one call of parseCsvBuffer on a single-column text of at    *)
(* most MaxSingleChars characters: lines over "a" in UTF-8, or over "a"    *)
(* and the syllable U+C12C in UTF-16LE or UTF-16BE.  No line holds a       *)
(* candidate delimiter.                                                    *)

MaxSingleChars == 4

InitSingle ==
    /\ fnIn \in {[text |-> text, encoding |-> "utf-8"] :
                    text \in SeqsUpTo({97, 10}, MaxSingleChars)}
                \cup {[text |-> text, encoding |-> encoding] :
                         text \in SeqsUpTo({97, 10, 49452}, MaxSingleChars),
                         encoding \in {"utf-16le", "utf-16be"}}
    /\ buffer = Encode(fnIn.text, fnIn.encoding)
    /\ pc = "check"
    /\ encIndex = 1
    /\ candidates = <<>>
    /\ outcome = "none"
    /\ returned = <<>>
    /\ fnOut = NoResult
    /\ NoSessions
    /\ NoDashboard

SpecSingle == InitSingle /\ [][Next]_vars

\* every line of the text is one cell under every candidate delimiter
SingleColumn(text) ==
    \A d \in 1..Len(DELIMITER_CANDIDATES) :
        \A i \in 1..Len(text) : text[i] # DELIMITER_CANDIDATES[d]

\* C16: for a single-column input every header-based and matrix-based candidate is
\* rejected and parseCsvBuffer throws instead of returning rows
C16_SingleColumnRejected ==
    (pc = "done" /\ SingleColumn(fnIn.text))
        => (candidates = <<>> /\ outcome = "unrecognized" /\ returned = <<>>)

----------------------------------------------------------------------------
(* Further claims about parseCsvBuffer, checked under Spec *)

\* C17: every candidate of the pool has at least one row, and its rows have at least
\* two columns (keys)
C17_PoolCandidates ==
    \A i \in 1..Len(candidates) :
        /\ Len(candidates[i].rows) >= 1
        /\ \A r \in 1..Len(candidates[i].rows) : Len(candidates[i].rows[r]) >= 2

\* the candidates of one encoding in the order of the claim: the header parse with the
\* auto-detected delimiter, then for comma, semicolon, tab, pipe and fullwidth comma
\* the header parse followed by the matrix parse
OrderedCandidates(bytes, encoding) ==
    LET decoded == decodeWithEncoding(bytes, encoding)
        text == decoded[1]
    IN IF decoded = <<>> \/ decoded[1] = <<>> THEN <<>>
       ELSE parseWithHeader(text, <<>>)
            \o parseWithHeader(text, <<44>>) \o parseWithMatrix(text, <<44>>)
            \o parseWithHeader(text, <<59>>) \o parseWithMatrix(text, <<59>>)
            \o parseWithHeader(text, <<9>>) \o parseWithMatrix(text, <<9>>)
            \o parseWithHeader(text, <<124>>) \o parseWithMatrix(text, <<124>>)
            \o parseWithHeader(text, <<65292>>) \o parseWithMatrix(text, <<65292>>)

GenerationOrder(bytes) ==
    OrderedCandidates(bytes, "utf-8") \o OrderedCandidates(bytes, "euc-kr")
        \o OrderedCandidates(bytes, "cp949") \o OrderedCandidates(bytes, "utf-16le")
        \o OrderedCandidates(bytes, "utf-16be")

\* the positions of the candidates with the highest score
TopPositions(pool) ==
    {i \in 1..Len(pool) : \A j \in 1..Len(pool) : pool[j].score <= pool[i].score}

\* the pool is in the order of generation and the rows returned are those of the
\* first candidate with the highest score
FirstOfTies ==
    (pc = "done" /\ outcome = "rows")
        => LET all == GenerationOrder(buffer)
               first == CHOOSE i \in TopPositions(all) : \A j \in TopPositions(all) : i <= j
           IN /\ candidates = all
              /\ returned = all[first].rows

\* C18: of the candidates that share the highest score parseCsvBuffer returns the one
\* generated first, in the order utf-8, euc-kr, cp949, utf-16le, utf-16be and within
\* an encoding auto-delimiter header parse, then per delimiter header parse and matrix
\* parse
C18_FirstOfTies == []FirstOfTies

\* two candidates with different rows share the highest score
C18_Witness ==
    /\ pc = "done"
    /\ outcome = "rows"
    /\ \E i \in TopPositions(candidates) : candidates[i].rows # returned

\* the encodings whose decoding fails (decodeWithEncoding returns null in its catch)
DecodeFails(encoding) == decodeWithEncoding(buffer, encoding) = <<>>

\* a step of the loop over an encoding whose decoding fails leaves the pool as it is
\* and goes on to the next encoding without ending the call
FailureSkipped ==
    (pc = "encodings" /\ encIndex <= Len(ENCODING_CANDIDATES)
        /\ DecodeFails(ENCODING_CANDIDATES[encIndex]))
        => /\ candidates' = candidates
           /\ encIndex' = encIndex + 1
           /\ pc' = "encodings"
           /\ outcome' = "none"

\* a call that passed the ZIP test ends after all five encodings, with an error
\* exactly when the pool is empty
ErrorOnlyAfterAll ==
    (pc = "done" /\ outcome # "xlsx")
        => /\ encIndex = Len(ENCODING_CANDIDATES) + 1
           /\ (outcome \in {"unrecognized", "xlsx-empty"}) <=> (candidates = <<>>)

\* C19: an encoding whose decoding fails contributes no candidate and does not end the
\* call: every later encoding is still tried, and an error for an unrecognized format
\* is raised only when the pool is empty after all five encodings
C19_DecodeFailureSkipped == [][FailureSkipped]_vars /\ []ErrorOnlyAfterAll

\* the decoding as "cp949" failed, and the rows returned are those of a candidate of
\* an encoding tried after it, better than every candidate of the encodings before
C19_Witness ==
    /\ pc = "done"
    /\ outcome = "rows"
    /\ DecodeFails("cp949")
    /\ \E i \in 1..Len(OrderedCandidates(buffer, "utf-16le")) :
          OrderedCandidates(buffer, "utf-16le")[i].rows = returned
    /\ \A i \in 1..Len(OrderedCandidates(buffer, "utf-8") \o OrderedCandidates(buffer, "euc-kr")) :
          (OrderedCandidates(buffer, "utf-8") \o OrderedCandidates(buffer, "euc-kr"))[i].score
              < bestCandidate(candidates).score

----------------------------------------------------------------------------
(* SpecStrategies: one pass of the delimiter loop of parseCsvBuffer on a    *)
(* decoded text: parseWithHeader and parseWithMatrix with the same          *)
(* delimiter.  The texts are comma-separated tables with 1..MaxColumns      *)
(* distinct one-letter column names and 1..MaxDataRows lines of cells "a",  *)
(* each line one cell shorter than the header, as long, or one longer.      *)

MaxColumns == 6
MaxDataRows == 3

\* "a", "b", "c", ...
ColumnName(index) == <<96 + index>>

RaggedTables ==
    UNION {UNION {{[titles |-> <<>>,
                    header |-> [i \in 1..columns |-> ColumnName(i)],
                    rows |-> [i \in 1..count |-> [j \in 1..lengths[i] |-> <<97>>]]] :
                      lengths \in [1..count -> {columns - 1, columns, columns + 1}]} :
                  count \in 1..MaxDataRows} :
           columns \in 1..MaxColumns}

InitStrategies ==
    /\ Idle
    /\ pc = "call"
    /\ fnIn \in {TableText(table) : table \in RaggedTables}
    /\ fnOut = NoResult

CallStrategies ==
    /\ pc = "call"
    /\ \E d \in 1..Len(DELIMITER_CANDIDATES) :
          fnOut' = [fn |-> "strategies",
                    delimiter |-> <<DELIMITER_CANDIDATES[d]>>,
                    header |-> parseWithHeader(fnIn, <<DELIMITER_CANDIDATES[d]>>),
                    matrix |-> parseWithMatrix(fnIn, <<DELIMITER_CANDIDATES[d]>>)]
    /\ pc' = "done"
    /\ UNCHANGED <<buffer, encIndex, candidates, outcome, returned, fnIn>>
    /\ UNCHANGED <<storeVars, dashVars>>

NextStrategies == CallStrategies

SpecStrategies == InitStrategies /\ [][NextStrategies]_vars

\* both strategies gave a candidate, with as many rows, as many header columns and
\* the same text quality.  The header strategy counts the fields of the header
\* line; the names the matrix strategy gives its columns are distinct here, so its
\* header count is the number of keys of a row
Comparable ==
    /\ pc = "done"
    /\ fnOut.header # <<>>
    /\ fnOut.matrix # <<>>
    /\ Len(fnOut.header[1].rows) = Len(fnOut.matrix[1].rows)
    /\ Len(PapaParse(fnIn, fnOut.delimiter, TRUE).fields) = Len(fnOut.matrix[1].rows[1])
    /\ rowsQualityScore(fnOut.header[1].rows) = rowsQualityScore(fnOut.matrix[1].rows)

\* C20 as claimed: of a header-based and a matrix-based candidate with the same row
\* count, header column count and text quality, the header-based one has the
\* strictly greater score
C20_HeaderPreferred == Comparable => fnOut.header[1].score > fnOut.matrix[1].score

\* C20, amended: of a header-based and a matrix-based candidate with the same row
\* count, header column count and text quality, the header-based one has the
\* strictly greater score when its parse reported no error
C20_HeaderPreferredWithoutErrors ==
    (Comparable /\ PapaParse(fnIn, fnOut.delimiter, TRUE).errors = <<>>)
        => fnOut.header[1].score > fnOut.matrix[1].score

\* comparable candidates of a table of several rows, parsed without an error: the
\* header-based score is ahead by 2 for every row
C20_Witness ==
    /\ Comparable
    /\ PapaParse(fnIn, fnOut.delimiter, TRUE).errors = <<>>
    /\ Len(fnOut.header[1].rows) >= 2
    /\ fnOut.header[1].score = fnOut.matrix[1].score + 2 * Len(fnOut.header[1].rows)

----------------------------------------------------------------------------
(* SpecNormalize: one call of normalizeText, as decodeWithEncoding makes it *)
(* on the decoded text of every encoding.  The texts are made of at most    *)
(* MaxPieces pieces: a byte order mark, "sep=", ";", "\r", "\n" and "a".    *)

MaxPieces == 5

TextPieces ==
    {<<ByteOrderMark>>, <<115, 101, 112, 61>>, <<59>>, <<CarriageReturn>>, <<LineFeed>>,
     <<97>>}

InitNormalize ==
    /\ Idle
    /\ pc = "call"
    /\ fnIn \in {Flatten(pieces) : pieces \in SeqsUpTo(TextPieces, MaxPieces)}
    /\ fnOut = NoResult

CallNormalizeText ==
    /\ pc = "call"
    /\ fnOut' = [fn |-> "normalizeText", result |-> normalizeText(fnIn)]
    /\ pc' = "done"
    /\ UNCHANGED <<buffer, encIndex, candidates, outcome, returned, fnIn>>
    /\ UNCHANGED <<storeVars, dashVars>>

NextNormalize == CallNormalizeText

SpecNormalize == InitNormalize /\ [][NextNormalize]_vars

\* the text starts with a separator directive line: "sep=", at least one character
\* that ends no line, and the end of the line
StartsWithSepLine(text) ==
    /\ StartsWithSep(text)
    /\ \E e \in 6..Len(text) :
          /\ text[e] \in {LineFeed, CarriageReturn}
          /\ \A i \in 5..(e - 1) : ~IsLineTerminator(text[i])

\* C21: the text handed to the parse strategies contains no carriage return and
\* starts neither with a byte order mark nor with a sep= directive line
C21_Normalized ==
    pc = "done"
        => /\ \A i \in 1..Len(fnOut.result) : fnOut.result[i] # CarriageReturn
           /\ ~(fnOut.result # <<>> /\ Head(fnOut.result) = ByteOrderMark)
           /\ ~StartsWithSepLine(fnOut.result)

----------------------------------------------------------------------------
(* csv-schema.ts: the validator of decoded rows.  A row is a JS object of   *)
(* string values, as parseCsvBuffer returns it.                             *)

\* the names of the required columns: "수주번호" (order number), "사업자 등록번호"
\* (business registration number), "실적대리점" (agency), "수주금액" (order amount)
StrOrderNo == <<49688, 51452, 48264, 54840>>
StrBizNo == <<49324, 50629, 51088, 32, 46321, 47197, 48264, 54840>>
StrAgency == <<49892, 51201, 45824, 47532, 51216>>
StrOrderAmount == <<49688, 51452, 44552, 50529>>

REQUIRED_COLUMNS(source) ==
    CASE source = "orders" -> <<StrOrderNo, StrBizNo, StrAgency, StrOrderAmount>>
      [] source = "customers" -> <<StrBizNo>>
      [] source = "products" -> <<StrOrderNo>>

\* 수주번호, 주문번호, 오더번호, order_no, orderno
OrderNoAliases ==
    <<<<49688, 51452, 48264, 54840>>,
      <<51452, 47928, 48264, 54840>>,
      <<50724, 45908, 48264, 54840>>,
      <<111, 114, 100, 101, 114, 95, 110, 111>>,
      <<111, 114, 100, 101, 114, 110, 111>>>>

\* 사업자 등록번호, 사업자등록번호, 사업자번호, biz_no, business_no
BizNoAliases ==
    <<<<49324, 50629, 51088, 32, 46321, 47197, 48264, 54840>>,
      <<49324, 50629, 51088, 46321, 47197, 48264, 54840>>,
      <<49324, 50629, 51088, 48264, 54840>>,
      <<98, 105, 122, 95, 110, 111>>,
      <<98, 117, 115, 105, 110, 101, 115, 115, 95, 110, 111>>>>

\* 실적대리점, 대리점, 대리점명, 영업대리점, agency, agency_name; the list of the orders source
AgencyAliases ==
    <<<<49892, 51201, 45824, 47532, 51216>>,
      <<45824, 47532, 51216>>,
      <<45824, 47532, 51216, 47749>>,
      <<50689, 50629, 45824, 47532, 51216>>,
      <<97, 103, 101, 110, 99, 121>>,
      <<97, 103, 101, 110, 99, 121, 95, 110, 97, 109, 101>>>>

\* 수주금액, 주문금액, 매출금액, 합계금액, order_amount, sales_amount; the list of the orders source
OrderAmountAliases ==
    <<<<49688, 51452, 44552, 50529>>,
      <<51452, 47928, 44552, 50529>>,
      <<47588, 52636, 44552, 50529>>,
      <<54633, 44228, 44552, 50529>>,
      <<111, 114, 100, 101, 114, 95, 97, 109, 111, 117, 110, 116>>,
      <<115, 97, 108, 101, 115, 95, 97, 109, 111, 117, 110, 116>>>>

\* COLUMN_ALIASES[source][required] ?? [required], for the required columns (the
\* entries findMissingColumns reads; every required column has an entry)
COLUMN_ALIASES(source, required) ==
    CASE required = StrOrderNo /\ source \in {"orders", "products"} -> OrderNoAliases
      [] required = StrBizNo /\ source \in {"orders", "customers"} -> BizNoAliases
      [] required = StrAgency /\ source = "orders" -> AgencyAliases
      [] required = StrOrderAmount /\ source = "orders" -> OrderAmountAliases
      [] OTHER -> <<required>>

\* String.prototype.toLowerCase on the letters A-Z; the other characters of the
\* modelled headers have no lower case form
ToLowerCase(s) == [i \in 1..Len(s) |-> IF s[i] >= 65 /\ s[i] <= 90 THEN s[i] + 32 ELSE s[i]]

\* the characters normalizeHeader deletes: " ' ` and [\s_()[\]{}\-\/]
IsHeaderNoise(c) ==
    \/ c \in {34, 39, 96}
    \/ IsWhiteSpace(c)
    \/ c \in {95, 40, 41, 91, 93, 123, 125, 45, 47}

normalizeHeader(header) ==
    ToLowerCase(Trim(FilterSeq(StripBom(header), LAMBDA c : ~IsHeaderNoise(c))))

\* aliases.some((alias) => headers.has(normalizeHeader(alias)))
hasAnyAlias(headers, aliases) ==
    \E i \in 1..Len(aliases) : normalizeHeader(aliases[i]) \in headers

SampleSize == 20

\* the keys of the first 20 rows, normalized
collectHeaders(rows) ==
    LET sampled == Take(rows, SampleSize)
    IN UNION {{normalizeHeader(sampled[i][j][1]) : j \in 1..Len(sampled[i])} :
                 i \in 1..Len(sampled)}

findMissingColumns(normalizedHeaders, source) ==
    FilterSeq(REQUIRED_COLUMNS(source),
              LAMBDA required :
                  ~hasAnyAlias(normalizedHeaders, COLUMN_ALIASES(source, required)))

\* mutant of tryShiftedHeader: the promoted row stays among the data rows
tryShiftedHeader_KeepsFirstRow(rows, source) ==
    IF Len(rows) < 2 THEN <<>>
    ELSE LET firstRow == rows[1]
             keys == RowKeys(firstRow)
             headerValues == [i \in 1..Len(keys) |-> Trim(firstRow[i][2])]
             candidateHeaderSet ==
                 {normalizeHeader(headerValues[i]) : i \in 1..Len(keys)} \ {<<>>}
             shiftedHeader(index) ==
                 IF headerValues[index] # <<>> THEN headerValues[index]
                 ELSE StrCol \o NumStr(index)
             RECURSIVE rebuild(_, _, _)
             rebuild(row, index, rebuilt) ==
                 IF index > Len(keys) THEN rebuilt
                 ELSE rebuild(row, index + 1,
                              Put(rebuilt, shiftedHeader(index),
                                  IF HasKey(row, keys[index])
                                  THEN Trim(row[GetKey(row, keys[index])][2])
                                  ELSE <<>>))
             shiftedRows == [i \in 1..Len(rows) |-> rebuild(rows[i], 1, <<>>)]
         IN IF Len(findMissingColumns(candidateHeaderSet, source))
                   > Len(REQUIRED_COLUMNS(source)) \div 2
            THEN <<>>
            ELSE IF findMissingColumns(collectHeaders(shiftedRows), source) = <<>>
            THEN <<shiftedRows>>
            ELSE <<>>

\* tryShiftedHeader: <<>> for null, else <<shiftedRows>>
tryShiftedHeader(rows, source) ==
    IF Len(rows) < 2 THEN <<>>
    ELSE LET firstRow == rows[1]
             keys == RowKeys(firstRow)
             headerValues == [i \in 1..Len(keys) |-> Trim(firstRow[i][2])]
             candidateHeaderSet ==
                 {normalizeHeader(headerValues[i]) : i \in 1..Len(keys)} \ {<<>>}
             shiftedHeader(index) ==
                 IF headerValues[index] # <<>> THEN headerValues[index]
                 ELSE StrCol \o NumStr(index)
             RECURSIVE rebuild(_, _, _)
             rebuild(row, index, rebuilt) ==
                 IF index > Len(keys) THEN rebuilt
                 ELSE rebuild(row, index + 1,
                              Put(rebuilt, shiftedHeader(index),
                                  IF HasKey(row, keys[index])
                                  THEN Trim(row[GetKey(row, keys[index])][2])
                                  ELSE <<>>))
             shiftedRows == [i \in 1..(Len(rows) - 1) |-> rebuild(rows[i + 1], 1, <<>>)]
         IN IF Len(findMissingColumns(candidateHeaderSet, source))
                   > Len(REQUIRED_COLUMNS(source)) \div 2
            THEN <<>>
            ELSE IF findMissingColumns(collectHeaders(shiftedRows), source) = <<>>
            THEN <<shiftedRows>>
            ELSE <<>>

\* z.array(z.record(z.string(), z.string().nullable().optional())): every row is an
\* object (here a list of key-value pairs) whose values are strings
csvRecordSchema(rows) ==
    \A i \in 1..Len(rows) : \A j \in 1..Len(rows[i]) :
        /\ DOMAIN rows[i][j] = 1..2
        /\ DOMAIN rows[i][j][2] = 1..Len(rows[i][j][2])

\* mutant of validateCsvRows: no recovery by the shifted header
validateCsvRows_NoRecovery(rows, source) ==
    IF ~csvRecordSchema(rows) THEN [threw |-> "parse", rows |-> <<>>]
    ELSE IF findMissingColumns(collectHeaders(rows), source) = <<>>
    THEN [threw |-> "none", rows |-> rows]
    ELSE [threw |-> "missing", rows |-> <<>>]

\* validateCsvRows: the rows returned, or the error thrown ("parse" for the failed
\* schema parse, "missing" for the missing required columns)
validateCsvRows(rows, source) ==
    IF ~csvRecordSchema(rows) THEN [threw |-> "parse", rows |-> <<>>]
    ELSE IF findMissingColumns(collectHeaders(rows), source) = <<>>
    THEN [threw |-> "none", rows |-> rows]
    ELSE IF tryShiftedHeader(rows, source) # <<>>
    THEN [threw |-> "none", rows |-> tryShiftedHeader(rows, source)[1]]
    ELSE [threw |-> "missing", rows |-> <<>>]

----------------------------------------------------------------------------
(* SpecValidate: one call of validateCsvRows on rows as parseCsvBuffer      *)
(* returns them, for each source type.  The tables are empty, or a first    *)
(* row, 0..MaxFiller filler rows and a last row, so that the last row lies  *)
(* within the sample of 20 rows or beyond it.                               *)

MaxFiller == 19

RowKinds ==
    {\* the empty record
     <<>>,
     \* {"사업자 등록번호": "1"}
     <<<<<<49324, 50629, 51088, 32, 46321, 47197, 48264, 54840>>, <<49>>>>>>,
     \* {" Biz_No": "1", "x": ""}
     <<<<<<32, 66, 105, 122, 95, 78, 111>>, <<49>>>>, <<<<120>>, <<>>>>>>,
     \* {"수주번호": "1", "사업자번호": "2", "대리점": "3", "수주금액": "4"}
     <<<<<<49688, 51452, 48264, 54840>>, <<49>>>>, <<<<49324, 50629, 51088, 48264, 54840>>, <<50>>>>, <<<<45824, 47532, 51216>>, <<51>>>>, <<<<49688, 51452, 44552, 50529>>, <<52>>>>>>,
     \* {"a": "order_no", "b": "사업자 등록번호", "c": " 대리점명 ", "d": "매출금액"}: the values are header names
     <<<<<<97>>, <<111, 114, 100, 101, 114, 95, 110, 111>>>>, <<<<98>>, <<49324, 50629, 51088, 32, 46321, 47197, 48264, 54840>>>>, <<<<99>>, <<32, 45824, 47532, 51216, 47749, 32>>>>, <<<<100>>, <<47588, 52636, 44552, 50529>>>>>>,
     \* {"a": "수주번호", "b": ""}
     <<<<<<97>>, <<49688, 51452, 48264, 54840>>>>, <<<<98>>, <<>>>>>>,
     \* {"a": "수주번호", "b": "수주금액"}
     <<<<<<97>>, <<49688, 51452, 48264, 54840>>>>, <<<<98>>, <<49688, 51452, 44552, 50529>>>>>>,
     \* {"a": "주문번호", "b": "주문번호"}: the same header name twice
     <<<<<<97>>, <<51452, 47928, 48264, 54840>>>>, <<<<98>>, <<51452, 47928, 48264, 54840>>>>>>,
     \* {"a": " x ", "b": "y", "e": "z"}
     <<<<<<97>>, <<32, 120, 32>>>>, <<<<98>>, <<121>>>>, <<<<101>>, <<122>>>>>>}

\* the empty record and {"x": "1"}
FillerKinds == {<<>>, <<<<<<120>>, <<49>>>>>>}

CsvTables ==
    {<<>>}
      \cup {<<first>> : first \in RowKinds}
      \cup {<<first>> \o [i \in 1..count |-> filler] \o <<last>> :
               first \in RowKinds, last \in RowKinds, filler \in FillerKinds,
               count \in 0..MaxFiller}

InitValidate ==
    /\ Idle
    /\ pc = "call"
    /\ fnIn \in {[rows |-> rows, source |-> source] :
                    rows \in CsvTables, source \in {"orders", "customers", "products"}}
    /\ fnOut = NoResult

CallValidateCsvRows ==
    /\ pc = "call"
    /\ fnOut' = [fn |-> "validateCsvRows", result |-> validateCsvRows(fnIn.rows, fnIn.source)]
    /\ pc' = "done"
    /\ UNCHANGED <<buffer, encIndex, candidates, outcome, returned, fnIn>>
    /\ UNCHANGED <<storeVars, dashVars>>

NextValidate == CallValidateCsvRows

SpecValidate == InitValidate /\ [][NextValidate]_vars

\* a name stands for the required column: normalized, it is one of the normalized
\* aliases of the column
NamesColumn(name, source, required) ==
    \E a \in 1..Len(COLUMN_ALIASES(source, required)) :
        normalizeHeader(name) = normalizeHeader(COLUMN_ALIASES(source, required)[a])

\* no key of the first 20 rows stands for the required column
AbsentFromSample(rows, source, required) ==
    \A i \in 1..Len(rows) :
        i <= SampleSize => \A j \in 1..Len(rows[i]) : ~NamesColumn(rows[i][j][1], source, required)

SomeColumnAbsent(rows, source) ==
    \E r \in 1..Len(REQUIRED_COLUMNS(source)) :
        AbsentFromSample(rows, source, REQUIRED_COLUMNS(source)[r])

\* there is a row below the first one, and the values of the first row name every
\* required column
HeaderInFirstRow(rows, source) ==
    /\ Len(rows) >= 2
    /\ \A r \in 1..Len(REQUIRED_COLUMNS(source)) :
          \E j \in 1..Len(rows[1]) :
              NamesColumn(rows[1][j][2], source, REQUIRED_COLUMNS(source)[r])

\* C22 as claimed: validateCsvRows throws the missing-column error exactly when a
\* required column is absent from the keys of the sampled rows
C22_ThrowsWhenMissing ==
    pc = "done"
        => (fnOut.result.threw = "missing" <=> SomeColumnAbsent(fnIn.rows, fnIn.source))

\* C22, amended: validateCsvRows throws the missing-column error exactly when a
\* required column is absent from the keys of the sampled rows and the values of the
\* first row do not name every required column above a further row; it returns the
\* rows as given exactly when no required column is absent
C22_ThrowsUnlessRecovered ==
    pc = "done"
        => /\ fnOut.result.threw = "missing"
                <=> (SomeColumnAbsent(fnIn.rows, fnIn.source)
                        /\ ~HeaderInFirstRow(fnIn.rows, fnIn.source))
           /\ ~SomeColumnAbsent(fnIn.rows, fnIn.source)
                <=> (fnOut.result.threw = "none" /\ fnOut.result.rows = fnIn.rows)

\* the error is thrown for a table whose only key for the required column lies in
\* a row beyond the sample
C22_Witness ==
    /\ pc = "done"
    /\ fnOut.result.threw = "missing"
    /\ Len(fnIn.rows) > SampleSize
    /\ \A r \in 1..Len(REQUIRED_COLUMNS(fnIn.source)) :
          \E j \in 1..Len(fnIn.rows[Len(fnIn.rows)]) :
              NamesColumn(fnIn.rows[Len(fnIn.rows)][j][1], fnIn.source,
                          REQUIRED_COLUMNS(fnIn.source)[r])

----------------------------------------------------------------------------
(* session-store.ts: sessions in the STORE map of a server process and in   *)
(* the files of SESSION_DIR, which the server processes share.              *)

\* Map: a function on the set of its keys
MapSet(map, key, value) ==
    [k \in DOMAIN map \cup {key} |-> IF k = key THEN value ELSE map[k]]

MapDelete(map, keys) == [k \in DOMAIN map \ keys |-> map[k]]

TTL_MS == 2 * 60 * 60 * 1000

\* the server processes that share SESSION_DIR
Procs == {1, 2}

\* a dataset is modelled by the order dates of its orders, the one part the file
\* format changes: a Date ([date |-> ms]) or null
NoDate == [null |-> TRUE]

\* orderDate.toISOString(): the ISO string that names the same millisecond
serializeDataset(dataset) ==
    [orders |-> [i \in 1..Len(dataset.orders) |->
                    [orderDate |-> IF dataset.orders[i].orderDate # NoDate
                                   THEN [iso |-> dataset.orders[i].orderDate.date]
                                   ELSE NoDate]]]

\* new Date(orderDate) of an ISO string
deserializeDataset(dataset) ==
    [orders |-> [i \in 1..Len(dataset.orders) |->
                    [orderDate |-> IF dataset.orders[i].orderDate # NoDate
                                   THEN [date |-> dataset.orders[i].orderDate.iso]
                                   ELSE NoDate]]]

\* the text of a file that writeFileSync has opened and not yet written: JSON.parse
\* throws on it
PartialFile == [partial |-> TRUE]

\* the text persistSession writes
persistedText(payload) ==
    [createdAt |-> payload.createdAt, dataset |-> serializeDataset(payload.dataset)]

\* readPersistedSession: <<>> for null
readPersistedSession(dir, sessionId) ==
    IF sessionId \notin DOMAIN dir THEN <<>>
    ELSE IF dir[sessionId] = PartialFile THEN <<>>
    ELSE <<[createdAt |-> dir[sessionId].createdAt,
            dataset |-> deserializeDataset(dir[sessionId].dataset)]>>

\* sweepExpired in a process with the given STORE: the expired sessions of STORE
\* leave STORE and the directory, then every file that is unreadable or expired
\* is deleted
sweepExpired(store, dir, time) ==
    LET expired == {id \in DOMAIN store : time - store[id].createdAt > TTL_MS}
        kept == MapDelete(dir, expired)
        stale == {id \in DOMAIN kept :
                     \/ readPersistedSession(kept, id) = <<>>
                     \/ time - readPersistedSession(kept, id)[1].createdAt > TTL_MS}
    IN [store |-> MapDelete(store, expired), dir |-> MapDelete(kept, stale)]

\* mutant of getSession: a session read from its file starts a new life
getSession_RefreshesCreatedAt(store, dir, time, sessionId) ==
    LET swept == sweepExpired(store, dir, time)
        persisted == readPersistedSession(swept.dir, sessionId)
    IN IF sessionId \in DOMAIN swept.store
       THEN [store |-> swept.store, dir |-> swept.dir,
             dataset |-> <<swept.store[sessionId].dataset>>]
       ELSE IF persisted = <<>>
       THEN [store |-> swept.store, dir |-> swept.dir, dataset |-> <<>>]
       ELSE IF time - persisted[1].createdAt > TTL_MS
       THEN [store |-> swept.store, dir |-> MapDelete(swept.dir, {sessionId}),
             dataset |-> <<>>]
       ELSE [store |-> MapSet(swept.store, sessionId,
                              [persisted[1] EXCEPT !.createdAt = time]),
             dir |-> swept.dir,
             dataset |-> <<persisted[1].dataset>>]

\* getSession: the STORE and the directory after the call, and the dataset
\* returned (<<>> for null)
getSession(store, dir, time, sessionId) ==
    LET swept == sweepExpired(store, dir, time)
        persisted == readPersistedSession(swept.dir, sessionId)
    IN IF sessionId \in DOMAIN swept.store
       THEN [store |-> swept.store, dir |-> swept.dir,
             dataset |-> <<swept.store[sessionId].dataset>>]
       ELSE IF persisted = <<>>
       THEN [store |-> swept.store, dir |-> swept.dir, dataset |-> <<>>]
       ELSE IF time - persisted[1].createdAt > TTL_MS
       THEN [store |-> swept.store, dir |-> MapDelete(swept.dir, {sessionId}),
             dataset |-> <<>>]
       ELSE [store |-> MapSet(swept.store, sessionId, persisted[1]),
             dir |-> swept.dir,
             dataset |-> <<persisted[1].dataset>>]

----------------------------------------------------------------------------
(* SpecSessions: the server processes call createSession and getSession,    *)
(* one call at a time, while the clock advances by a millisecond or by      *)
(* TTL_MS.  At most MaxSessions sessions are created and the clock advances *)
(* at most MaxTicks times.                                                  *)

MaxSessions == 1
MaxTicks == 2

SessionIds == 1..MaxSessions

\* no order, an order without a date, an order with a date
Datasets ==
    {[orders |-> <<>>],
     [orders |-> <<[orderDate |-> NoDate]>>],
     [orders |-> <<[orderDate |-> [date |-> 1000000000]]>>]}

InitSessions ==
    /\ buffer = <<>>
    /\ pc = "serving"
    /\ encIndex = 1
    /\ candidates = <<>>
    /\ outcome = "none"
    /\ returned = <<>>
    /\ fnIn = <<>>
    /\ fnOut = NoResult
    /\ STORE = [p \in Procs |-> <<>>]
    /\ files = <<>>
    /\ now = 0
    /\ created = <<>>
    /\ reply = <<>>
    /\ writer = [p \in Procs |-> <<>>]
    /\ NoDashboard

\* crypto.randomUUID(): an id no session has had
FreshId == CHOOSE id \in SessionIds \ DOMAIN created : \A other \in SessionIds \ DOMAIN created : id <= other

\* Date.now() advances
Tick ==
    /\ (now \div TTL_MS) + (now % TTL_MS) < MaxTicks
    /\ \E step \in {1, TTL_MS} : now' = now + step
    /\ UNCHANGED <<STORE, files, created, reply, writer>>
    /\ UNCHANGED <<parseVars, dashVars>>

\* createSession in process p, to the end of the call
CreateSession(p) ==
    /\ writer[p] = <<>>
    /\ SessionIds \ DOMAIN created # {}
    /\ \E dataset \in Datasets :
          LET swept == sweepExpired(STORE[p], files, now)
              payload == [dataset |-> dataset, createdAt |-> now]
          IN /\ STORE' = [STORE EXCEPT ![p] = MapSet(swept.store, FreshId, payload)]
             /\ files' = MapSet(swept.dir, FreshId, persistedText(payload))
             /\ created' = MapSet(created, FreshId,
                                  [dataset |-> dataset, createdAt |-> now, proc |-> p])
    /\ UNCHANGED <<now, reply, writer>>
    /\ UNCHANGED <<parseVars, dashVars>>

\* getSession in process p
GetSession(p) ==
    /\ writer[p] = <<>>
    /\ \E sessionId \in SessionIds :
          LET call == getSession(STORE[p], files, now, sessionId)
          IN /\ STORE' = [STORE EXCEPT ![p] = call.store]
             /\ files' = call.dir
             /\ reply' = [proc |-> p, sessionId |-> sessionId, at |-> now,
                          existed |-> sessionId \in DOMAIN created,
                          dataset |-> call.dataset]
    /\ UNCHANGED <<now, created, writer>>
    /\ UNCHANGED <<parseVars, dashVars>>

NextSessions ==
    \/ Tick
    \/ \E p \in Procs : CreateSession(p)
    \/ \E p \in Procs : GetSession(p)

SpecSessions == InitSessions /\ [][NextSessions]_vars

\* what getSession has to return at the time of the last call: the dataset given
\* to createSession while the session is no older than TTL_MS, null afterwards
\* and for an id no session had
ExpectedReply ==
    IF reply.existed /\ reply.at - created[reply.sessionId].createdAt <= TTL_MS
    THEN <<created[reply.sessionId].dataset>>
    ELSE <<>>

\* C23: getSession returns the dataset given to createSession while now - createdAt
\* <= TTL and null once now - createdAt > TTL; the createdAt of a session, in a
\* STORE or in its file, is always the time of its creation
C23_FixedTimeToLive ==
    /\ reply # <<>> => reply.dataset = ExpectedReply
    /\ \A p \in Procs : \A id \in DOMAIN STORE[p] :
          STORE[p][id].createdAt = created[id].createdAt
    /\ \A id \in DOMAIN files :
          files[id] # PartialFile => files[id].createdAt = created[id].createdAt

\* a process that did not create the session reads it from its file when the
\* session is exactly TTL_MS old, and returns its dataset, dates included
C23_Witness ==
    /\ reply # <<>>
    /\ reply.existed
    /\ reply.proc # created[reply.sessionId].proc
    /\ reply.at - created[reply.sessionId].createdAt = TTL_MS
    /\ reply.dataset = <<[orders |-> <<[orderDate |-> [date |-> 1000000000]]>>]>>

----------------------------------------------------------------------------
(* generate.ts: generateInsightMessages.  The response of the LLM service   *)
(* is the environment's choice: the request is aborted by the 20 s timer,   *)
(* fetch rejects, the response is not OK, its body is no JSON, or it holds  *)
(* a payload with or without choices[0].message.content.  The content is a  *)
(* text; JSON.parse is modelled on the value the text stands for.           *)

\* JSON values: a text that is no JSON, null, a string, a number, an array, an object
\* with or without a "messages" member
NotJson == [json |-> "no"]
JsonNull == [json |-> "null"]
JsonString(s) == [json |-> "string", chars |-> s]
JsonNumber(n) == [json |-> "number", value |-> n]
JsonArray(items) == [json |-> "array", items |-> items]
JsonObject(members) == [json |-> "object", members |-> members]

\* String(message) of a parsed JSON value
StringOf(value) ==
    CASE value.json = "string" -> value.chars
      [] value.json = "number" -> NumStr(value.value)
      [] value.json = "null" -> <<110, 117, 108, 108>>
      [] OTHER -> <<>>

MessageLimit == 5

\* mutant of parseJsonMessages: every message is kept
parseJsonMessages_NoLimit(raw) ==
    IF raw.json # "object" THEN <<>>
    ELSE IF ~("messages" \in DOMAIN raw.members) THEN <<>>
    ELSE IF raw.members.messages.json # "array" THEN <<>>
    ELSE FilterSeq([i \in 1..Len(raw.members.messages.items) |->
                                  Trim(StringOf(raw.members.messages.items[i]))],
                              LAMBDA message : message # <<>>)

\* parseJsonMessages: <<>> for null.  JSON.parse throws on a text that is no JSON
\* and parsed.messages throws on null; a value without the member has none
parseJsonMessages(raw) ==
    IF raw.json # "object" THEN <<>>
    ELSE IF ~("messages" \in DOMAIN raw.members) THEN <<>>
    ELSE IF raw.members.messages.json # "array" THEN <<>>
    ELSE Take(FilterSeq([i \in 1..Len(raw.members.messages.items) |->
                                  Trim(StringOf(raw.members.messages.items[i]))],
                              LAMBDA message : message # <<>>),
              MessageLimit)

\* "[", "] ", " 기준으로 핵심 지표를 읽어 해석했습니다.", "에 맞춰 ", ", ",
\* " 중심으로 확인이 필요합니다." and "권장 출력 형식: "
StrBracketOpen == <<91>>
StrBracketClose == <<93, 32>>
StrFallbackRead == <<32, 44592, 51456, 51004, 47196, 32, 54645, 49900, 32, 51648, 54364, 47484, 32, 51069, 50612, 32, 54644, 49437, 54664, 49845, 45768, 45796, 46>>
StrFallbackFor == <<50640, 32, 47582, 52656, 32>>
StrCommaSpace == <<44, 32>>
StrFallbackFocus == <<32, 51473, 49900, 51004, 47196, 32, 54869, 51064, 51060, 32, 54596, 50836, 54633, 45768, 45796, 46>>
StrFallbackHint == <<44428, 51109, 32, 52636, 47141, 32, 54805, 49885, 58, 32>>

\* "정의되지 않은 프리셋입니다."
StrUndefinedPreset == <<51221, 51032, 46104, 51648, 32, 50506, 51008, 32, 54532, 47532, 49483, 51077, 45768, 45796, 46>>

fallbackMessages(agency, preset) ==
    <<StrBracketOpen \o preset.title \o StrBracketClose \o agency \o StrFallbackRead,
      preset.objective \o StrFallbackFor \o Join(preset.focus, StrCommaSpace)
          \o StrFallbackFocus,
      StrFallbackHint \o preset.outputHint>>

\* what fetch and the response can be: fetch "aborted" by the timer or "rejected",
\* or a "response" that is OK or not, whose body is JSON or not, with the text of
\* choices[0].message.content ("none": no such member or null)
NoContent == [json |-> "none"]

\* requestOpenAi once fetch has settled: <<>> for null
requestOpenAi(apiKey, settled) ==
    IF ~apiKey THEN <<>>
    ELSE IF settled.fetch # "response" THEN <<>>
    ELSE IF ~settled.ok THEN <<>>
    ELSE IF ~settled.bodyIsJson THEN <<>>
    ELSE IF settled.content = NoContent THEN <<>>
    ELSE IF settled.content.json = "blank" THEN <<>>
    ELSE parseJsonMessages(settled.content)

----------------------------------------------------------------------------
(* SpecInsight: one call of generateInsightMessages.  The messages array of *)
(* a response holds at most MaxMessages items.                              *)

MaxMessages == 6

\* the items of a messages array: "a", " ", null and 7
MessageItems == {JsonString(<<97>>), JsonString(<<32>>), JsonNull, JsonNumber(7)}

Contents ==
    {NoContent, [json |-> "blank"], NotJson, JsonNull,
     JsonObject([other |-> JsonNull]),
     JsonObject([messages |-> JsonString(<<97>>)])}
      \cup {JsonObject([messages |-> JsonArray(items)]) :
               items \in SeqsUpTo(MessageItems, MaxMessages)}

Settlements ==
    {[fetch |-> "aborted", ok |-> FALSE, bodyIsJson |-> FALSE, content |-> NoContent],
     [fetch |-> "rejected", ok |-> FALSE, bodyIsJson |-> FALSE, content |-> NoContent],
     [fetch |-> "response", ok |-> TRUE, bodyIsJson |-> FALSE, content |-> NoContent]}
      \cup {[fetch |-> "response", ok |-> ok, bodyIsJson |-> TRUE, content |-> content] :
               ok \in BOOLEAN, content \in Contents}

\* a preset with title "t", objective "o", focus ["f", "g"] and output hint "h"
SomePreset ==
    [title |-> <<116>>, objective |-> <<111>>, focus |-> <<<<102>>, <<103>>>>,
     outputHint |-> <<104>>]

InitInsight ==
    /\ Idle
    /\ pc = "call"
    /\ fnIn \in {[agency |-> agency, preset |-> preset, apiKey |-> apiKey] :
                    agency \in {<<>>, <<97>>},
                    preset \in {<<>>, <<SomePreset>>},
                    apiKey \in BOOLEAN}
    /\ fnOut = [fn |-> "generateInsightMessages", requests |-> 0, settled |-> <<>>,
                result |-> <<>>]

\* generateInsightMessages to the first await: an unknown preset and a missing API
\* key end the call, otherwise the request is sent
CallGenerate ==
    /\ pc = "call"
    /\ IF fnIn.preset = <<>>
       THEN /\ fnOut' = [fnOut EXCEPT !.result = <<StrUndefinedPreset>>]
            /\ pc' = "done"
       ELSE IF ~fnIn.apiKey
       THEN /\ fnOut' = [fnOut EXCEPT !.result = fallbackMessages(fnIn.agency, fnIn.preset[1])]
            /\ pc' = "done"
       ELSE /\ fnOut' = [fnOut EXCEPT !.requests = fnOut.requests + 1]
            /\ pc' = "fetching"
    /\ UNCHANGED <<buffer, encIndex, candidates, outcome, returned, fnIn>>
    /\ UNCHANGED <<storeVars, dashVars>>

\* fetch settles and generateInsightMessages returns
FetchSettles ==
    /\ pc = "fetching"
    /\ \E settled \in Settlements :
          fnOut' = [fnOut EXCEPT
                       !.settled = <<settled>>,
                       !.result = IF requestOpenAi(fnIn.apiKey, settled) # <<>>
                                  THEN requestOpenAi(fnIn.apiKey, settled)
                                  ELSE fallbackMessages(fnIn.agency, fnIn.preset[1])]
    /\ pc' = "done"
    /\ UNCHANGED <<buffer, encIndex, candidates, outcome, returned, fnIn>>
    /\ UNCHANGED <<storeVars, dashVars>>

NextInsight == CallGenerate \/ FetchSettles

SpecInsight == InitInsight /\ [][NextInsight]_vars

\* the content is JSON with a non-empty messages array
HasMessages(content) ==
    /\ content.json = "object"
    /\ "messages" \in DOMAIN content.members
    /\ content.members.messages.json = "array"
    /\ content.members.messages.items # <<>>

\* the cases of the claim: no API key, the request timed out, the response is not
\* OK, or its content is not JSON with a non-empty messages array
FallbackCase ==
    \/ ~fnIn.apiKey
    \/ /\ fnOut.settled # <<>>
       /\ \/ fnOut.settled[1].fetch = "aborted"
          \/ fnOut.settled[1].fetch = "response" /\ ~fnOut.settled[1].ok
          \/ fnOut.settled[1].fetch = "response" /\ ~HasMessages(fnOut.settled[1].content)

\* C24: a call of generateInsightMessages for a known preset sends at most one
\* request; it returns the fallback messages when the API key is missing, the
\* request timed out, the response is not OK or its content is not JSON with a
\* non-empty messages array; the list returned is never empty and a list that is
\* not the fallback has at most 5 messages
C24_OneAttemptThenFallback ==
    /\ fnOut.fn = "generateInsightMessages" => fnOut.requests <= 1
    /\ (pc = "done" /\ fnOut.fn = "generateInsightMessages")
          => /\ fnOut.result # <<>>
             /\ fnIn.preset # <<>>
                   => /\ FallbackCase
                         => fnOut.result = fallbackMessages(fnIn.agency, fnIn.preset[1])
                      /\ fnOut.result # fallbackMessages(fnIn.agency, fnIn.preset[1])
                         => /\ Len(fnOut.result) <= MessageLimit
                            /\ fnOut.requests = 1

\* the response held more than 5 usable messages and the call returned the first 5
C24_Witness ==
    /\ pc = "done"
    /\ fnOut.fn = "generateInsightMessages"
    /\ fnOut.settled # <<>>
    /\ HasMessages(fnOut.settled[1].content)
    /\ Len(fnOut.settled[1].content.members.messages.items) > MessageLimit
    /\ \A i \in 1..Len(fnOut.settled[1].content.members.messages.items) :
          fnOut.settled[1].content.members.messages.items[i] = JsonString(<<97>>)
    /\ Len(fnOut.result) = MessageLimit
    /\ fnOut.result # fallbackMessages(fnIn.agency, fnIn.preset[1])

----------------------------------------------------------------------------
(* merge: buildAnalysisDataset on prepared orders, customers and products.  *)
(* A Map is a list of key-value pairs in insertion order.                   *)

\* `${bizNo}::${agency}`
customerKey(bizNo, agency) == bizNo \o <<58, 58>> \o agency

\* "unknown"
StrUnknown == <<117, 110, 107, 110, 111, 119, 110>>

\* byExact: the customers with a bizNo and an agency, by their key; of two
\* customers with the same key the later one stays
buildCustomerIndices(customers) ==
    LET RECURSIVE go(_, _)
        go(i, byExact) ==
            IF i > Len(customers) THEN byExact
            ELSE go(i + 1,
                    IF customers[i].bizNo # <<>> /\ customers[i].agency # <<>>
                    THEN Put(byExact, customerKey(customers[i].bizNo, customers[i].agency),
                             customers[i])
                    ELSE byExact)
    IN go(1, <<>>)

dedupeCustomers(customers) ==
    LET RECURSIVE go(_, _)
        go(i, map) ==
            IF i > Len(customers) THEN map
            ELSE go(i + 1,
                    Put(map,
                        customerKey(customers[i].bizNo,
                                    IF customers[i].agency # <<>> THEN customers[i].agency
                                    ELSE StrUnknown),
                        customers[i]))
    IN RowValues(go(1, <<>>))

buildAnalysisDataset(orders, customers, products) ==
    LET validOrders ==
            FilterSeq(orders, LAMBDA order :
                /\ order.orderAmount > 0
                /\ order.orderNo # <<>>
                /\ order.bizNo # <<>>
                /\ order.agency # <<>>)
        byExact == buildCustomerIndices(customers)
        found == FilterSeq(validOrders, LAMBDA order :
                     HasKey(byExact, customerKey(order.bizNo, order.agency)))
        matchedCustomers ==
            [i \in 1..Len(found) |->
                byExact[GetKey(byExact, customerKey(found[i].bizNo, found[i].agency))][2]]
        knownOrderSet == {validOrders[i].orderNo : i \in 1..Len(validOrders)}
    IN [orders |-> validOrders,
        customers |-> dedupeCustomers(matchedCustomers),
        products |-> FilterSeq(products, LAMBDA product : product.orderNo \in knownOrderSet)]

----------------------------------------------------------------------------
(* SpecMerge: one call of buildAnalysisDataset on at most MaxOrders orders, *)
(* MaxCustomers customers and MaxProducts products.                         *)

MaxOrders == 1
MaxCustomers == 2
MaxProducts == 2

\* "", "a" and "a::a"
PartyNames == {<<>>, <<97>>, <<97, 58, 58, 97>>}

\* "", "1" and "2"
OrderNumbers == {<<>>, <<49>>, <<50>>}

PreparedOrders ==
    {[orderNo |-> orderNo, bizNo |-> bizNo, agency |-> agency, orderAmount |-> amount] :
        orderNo \in {<<>>, <<49>>}, bizNo \in PartyNames, agency \in PartyNames,
        amount \in {0, 1}}

PreparedCustomers ==
    {[bizNo |-> bizNo, agency |-> agency] : bizNo \in PartyNames, agency \in PartyNames}

PreparedProducts == {[orderNo |-> orderNo] : orderNo \in OrderNumbers}

InitMerge ==
    /\ Idle
    /\ pc = "call"
    /\ fnIn \in {[orders |-> orders, customers |-> customers, products |-> products] :
                    orders \in SeqsUpTo(PreparedOrders, MaxOrders),
                    customers \in SeqsUpTo(PreparedCustomers, MaxCustomers),
                    products \in SeqsUpTo(PreparedProducts, MaxProducts)}
    /\ fnOut = NoResult

CallBuildAnalysisDataset ==
    /\ pc = "call"
    /\ fnOut' = [fn |-> "buildAnalysisDataset",
                 result |-> buildAnalysisDataset(fnIn.orders, fnIn.customers, fnIn.products)]
    /\ pc' = "done"
    /\ UNCHANGED <<buffer, encIndex, candidates, outcome, returned, fnIn>>
    /\ UNCHANGED <<storeVars, dashVars>>

NextMerge == CallBuildAnalysisDataset

SpecMerge == InitMerge /\ [][NextMerge]_vars

\* the orders kept are the given orders with a positive amount and a non-empty
\* orderNo, bizNo and agency, in their order
OrdersRetained ==
    fnOut.result.orders
        = FilterSeq(fnIn.orders, LAMBDA order :
              order.orderAmount > 0 /\ order.orderNo # <<>> /\ order.bizNo # <<>>
                  /\ order.agency # <<>>)

ProductsReferToOrders ==
    \A i \in 1..Len(fnOut.result.products) :
        \E j \in 1..Len(fnOut.result.orders) :
            fnOut.result.products[i].orderNo = fnOut.result.orders[j].orderNo

CustomersMatchOrders ==
    \A i \in 1..Len(fnOut.result.customers) :
        \E j \in 1..Len(fnOut.result.orders) :
            /\ fnOut.result.customers[i].bizNo = fnOut.result.orders[j].bizNo
            /\ fnOut.result.customers[i].agency = fnOut.result.orders[j].agency

CustomersDistinct ==
    \A i, j \in 1..Len(fnOut.result.customers) :
        (/\ fnOut.result.customers[i].bizNo = fnOut.result.customers[j].bizNo
         /\ fnOut.result.customers[i].agency = fnOut.result.customers[j].agency) => i = j

\* C25: buildAnalysisDataset keeps exactly the orders with a positive amount and a
\* non-empty orderNo, bizNo and agency; every product kept refers to a kept order;
\* every customer kept has the bizNo and the agency of a kept order, and no two
\* customers kept have the same bizNo and agency
C25_DatasetConsistent ==
    pc = "done"
        => /\ OrdersRetained
           /\ ProductsReferToOrders
           /\ CustomersMatchOrders
           /\ CustomersDistinct

----------------------------------------------------------------------------
(* Claim about the distinctness of uniqueHeaders' names, under SpecHeaders *)

\* C26: the names uniqueHeaders returns are pairwise distinct, for every list of
\* headers (such as [a, a, a_2]), so no two columns get the same row key
C26_NamesDistinct ==
    HeadersCall
        => \A i, j \in 1..Len(fnOut.result) :
              fnOut.result[i] = fnOut.result[j] => i = j

----------------------------------------------------------------------------
(* Claim about the rows validateCsvRows returns, checked under SpecValidate *)

\* some key of the first 20 rows stands for every required column
SampleHasRequired(rows, source) ==
    \A r \in 1..Len(REQUIRED_COLUMNS(source)) :
        \E i \in 1..Len(rows) :
            /\ i <= SampleSize
            /\ \E j \in 1..Len(rows[i]) :
                  NamesColumn(rows[i][j][1], source, REQUIRED_COLUMNS(source)[r])

\* the header the shifted result uses for column k of the first row
PromotedHeader(first, k) ==
    IF Trim(first[k][2]) # <<>> THEN Trim(first[k][2]) ELSE StrCol \o NumStr(k)

\* the value of a row under a key, "" when the row has no such key
ValueUnder(row, key) ==
    IF \E j \in 1..Len(row) : row[j][1] = key
    THEN row[CHOOSE j \in 1..Len(row) : row[j][1] = key][2]
    ELSE <<>>

\* shifted is the row below under the values of the first row as headers: it has
\* the promoted headers as keys, each once, and under a header the trimmed value
\* of the last column of the first row promoted to that header
RebuiltFrom(shifted, first, below) ==
    /\ {shifted[j][1] : j \in 1..Len(shifted)}
          = {PromotedHeader(first, k) : k \in 1..Len(first)}
    /\ \A j, l \in 1..Len(shifted) : shifted[j][1] = shifted[l][1] => j = l
    /\ \A j \in 1..Len(shifted) :
          \E k \in 1..Len(first) :
              /\ PromotedHeader(first, k) = shifted[j][1]
              /\ \A l \in (k + 1)..Len(first) : PromotedHeader(first, l) # shifted[j][1]
              /\ shifted[j][2] = Trim(ValueUnder(below, first[k][1]))

Recovered ==
    /\ pc = "done"
    /\ fnOut.result.threw = "none"
    /\ SomeColumnAbsent(fnIn.rows, fnIn.source)

\* C27: when validateCsvRows returns, the keys of the first 20 rows returned name
\* every required column of the source; a result of the shifted-header recovery is
\* the rows below the first one, in order, each rebuilt under the first row's values
C27_ReturnedRowsHaveRequired ==
    (pc = "done" /\ fnOut.result.threw = "none")
        => /\ SampleHasRequired(fnOut.result.rows, fnIn.source)
           /\ Recovered
                => /\ Len(fnOut.result.rows) = Len(fnIn.rows) - 1
                   /\ \A i \in 1..Len(fnOut.result.rows) :
                         RebuiltFrom(fnOut.result.rows[i], fnIn.rows[1], fnIn.rows[i + 1])

\* the recovery returned at least 20 rows, the last of them with values
C27_Witness ==
    /\ Recovered
    /\ Len(fnOut.result.rows) >= SampleSize
    /\ \E j \in 1..Len(fnOut.result.rows[Len(fnOut.result.rows)]) :
          fnOut.result.rows[Len(fnOut.result.rows)][j][2] # <<>>

----------------------------------------------------------------------------
(* SpecSessionRace: as SpecSessions, with the file write of persistSession  *)
(* in two steps.  fs.writeFileSync opens the file, which creates it empty,  *)
(* and then writes the text; the calls of one process follow each other     *)
(* (they are synchronous), the other process runs between any two system    *)
(* calls.  A sweep is taken as one step.                                    *)

\* createSession in process p up to the opening of the session file
BeginCreateSession(p) ==
    /\ writer[p] = <<>>
    /\ SessionIds \ DOMAIN created # {}
    /\ \E dataset \in Datasets :
          LET swept == sweepExpired(STORE[p], files, now)
              payload == [dataset |-> dataset, createdAt |-> now]
          IN /\ STORE' = [STORE EXCEPT ![p] = MapSet(swept.store, FreshId, payload)]
             /\ files' = MapSet(swept.dir, FreshId, PartialFile)
             /\ writer' = [writer EXCEPT
                              ![p] = <<[sessionId |-> FreshId, text |-> persistedText(payload)]>>]
             /\ created' = MapSet(created, FreshId,
                                  [dataset |-> dataset, createdAt |-> now, proc |-> p])
    /\ UNCHANGED <<now, reply>>
    /\ UNCHANGED <<parseVars, dashVars>>

\* the text is written to the open file and createSession returns; when the file
\* was deleted in between, the text goes to the unlinked file and the directory
\* stays without it
FinishWriteFile(p) ==
    /\ writer[p] # <<>>
    /\ files' = IF writer[p][1].sessionId \in DOMAIN files
                THEN MapSet(files, writer[p][1].sessionId, writer[p][1].text)
                ELSE files
    /\ writer' = [writer EXCEPT ![p] = <<>>]
    /\ UNCHANGED <<STORE, now, created, reply>>
    /\ UNCHANGED <<parseVars, dashVars>>

NextSessionRace ==
    \/ Tick
    \/ \E p \in Procs : BeginCreateSession(p)
    \/ \E p \in Procs : FinishWriteFile(p)
    \/ \E p \in Procs : GetSession(p)

SpecSessionRace == InitSessions /\ [][NextSessionRace]_vars

\* createSession has returned the id
CreationDone(id) ==
    /\ id \in DOMAIN created
    /\ writer[created[id].proc] = <<>>

\* C28: with two processes on one session directory, a session whose createSession
\* has returned and whose TTL has not passed has its file in the directory, with
\* the text that was written: no sweep of the other process has deleted it
C28_FileSurvivesSweeps ==
    \A id \in SessionIds :
        (CreationDone(id) /\ now - created[id].createdAt <= TTL_MS)
            => /\ id \in DOMAIN files
               /\ files[id] = persistedText([dataset |-> created[id].dataset,
                                             createdAt |-> created[id].createdAt])

----------------------------------------------------------------------------
(* DashboardApp: the state and the refs of the component in dash, the       *)
(* requests waiting for their response in inflight (a bag).  An analysis is *)
(* named by the selection <<sessionId, agency, benchmark>> it was computed  *)
(* for; messages and growth-segment rows are named by the analysis they     *)
(* were requested for.  A request key `${sessionId}|${agency}|${benchmark}` *)
(* or `...|manual|${Date.now()}` is the tuple of its parts: the benchmark   *)
(* and the time stamp end the string and hold no "|", the session id is a   *)
(* UUID, so two keys are equal exactly when their parts are.                *)

\* two of the PRESET_BINDINGS, an interpretation and an insight
PresetIds == {"geo_interpretation", "geo_insight"}

Benchmarks == {"overall", "club1000"}

\* EMPTY_MESSAGES, for the modelled presets
EMPTY_MESSAGES == [presetId \in PresetIds |-> <<>>]

\* a request in flight: its kind, the request key, the analysis it was built
\* from, its preset (single), the selectedAgency of the render that sent it
\* (load) and the `cancelled` variable of the effect run that sent it (analysis)
Request(kind, key, analysis, presetId, agency) ==
    [kind |-> kind, key |-> key, analysis |-> analysis, presetId |-> presetId,
     agency |-> agency, cancelled |-> FALSE]

\* `${currentSessionId}|${currentAgency}|${benchmark}`
EffectKey(state) == <<state.sessionId, state.selectedAgency, state.benchmark>>

\* the state after requestGrowthSegments and requestBatchPresets were called
\* (up to their fetch) for the analysis and the key
requestGrowthAndBatch(state) ==
    [state EXCEPT !.growthSegmentBusy = TRUE, !.aiBusy = TRUE]

GrowthAndBatch(analysis, key) ==
    SetToBag({Request("growth", key, analysis, "", 0),
              Request("batch", key, analysis, "", 0)})

\* resetAiSections
resetAiSections(state) ==
    [state EXCEPT !.messages = EMPTY_MESSAGES, !.growthSegmentRows = <<>>]

----------------------------------------------------------------------------
(* SpecDashboard: the user loads the default data at most MaxLoads times,   *)
(* changes the agency or the benchmark at most MaxSelections times, asks    *)
(* for one preset at most MaxSingles times and for the batch at most        *)
(* MaxManuals times; every response may succeed or fail.  The error        *)
(* message on display is "" (null) or "error", whatever its text.           *)

MaxLoads == 1
MaxSelections == 2
MaxSingles == 1
MaxManuals == 1

\* the agencies a load response may list
AgencyLists == {<<>>, <<1, 2>>}

InitDashboard ==
    /\ buffer = <<>>
    /\ pc = "mounted"
    /\ encIndex = 1
    /\ candidates = <<>>
    /\ outcome = "none"
    /\ returned = <<>>
    /\ fnIn = <<>>
    /\ fnOut = NoResult
    /\ NoSessions
    /\ dash = [sessionId |-> 0, agencies |-> <<>>, selectedAgency |-> 0,
               benchmark |-> "overall", analysis |-> <<>>, csvLoading |-> FALSE,
               busy |-> FALSE, aiBusy |-> FALSE, growthSegmentBusy |-> FALSE,
               growthSegmentRows |-> <<>>, defaultDataLabel |-> FALSE,
               error |-> "", messages |-> EMPTY_MESSAGES,
               analysisRequestKeyRef |-> <<>>, insightBatchKeyRef |-> <<>>,
               growthSegmentKeyRef |-> <<>>,
               effectDeps |-> <<0, 0, "overall">>,
               loads |-> 0, selections |-> 0, singles |-> 0, manuals |-> 0]
    /\ inflight = EmptyBag

\* the button "기본 데이터 다시 불러오기": loadDefaultCsvs up to its fetch; the
\* request is numbered
ClickLoadDefault ==
    /\ ~dash.busy
    /\ dash.loads < MaxLoads
    /\ dash' = [dash EXCEPT !.busy = TRUE, !.csvLoading = TRUE, !.error = "",
                            !.loads = @ + 1]
    /\ inflight' = inflight
                      (+) SetToBag({Request("load", <<dash.loads + 1>>, <<>>, "", dash.selectedAgency)})
    /\ UNCHANGED <<parseVars, storeVars>>

\* loadDefaultCsvs from the response on; the server has made a new session for
\* the request, here with the number of the click as its id
LoadDefaultResponds(request) ==
    /\ request.kind = "load"
    /\ BagIn(request, inflight)
    /\ inflight' = inflight (-) SetToBag({request})
    /\ \/ \E agencies \in AgencyLists :
             dash' = [dash EXCEPT
                         !.sessionId = request.key[1],
                         !.agencies = agencies,
                         !.selectedAgency =
                             IF \E i \in 1..Len(agencies) : agencies[i] = request.agency
                             THEN request.agency
                             ELSE IF agencies # <<>> THEN agencies[1] ELSE 0,
                         !.defaultDataLabel = TRUE,
                         !.csvLoading = FALSE,
                         !.busy = FALSE]
       \/ dash' = [dash EXCEPT !.defaultDataLabel = FALSE, !.error = "error",
                               !.csvLoading = FALSE, !.busy = FALSE]
    /\ UNCHANGED <<parseVars, storeVars>>

\* the agency Select
SelectAgency(agency) ==
    /\ dash.selections < MaxSelections
    /\ \E i \in 1..Len(dash.agencies) : dash.agencies[i] = agency
    /\ agency # dash.selectedAgency
    /\ dash' = [dash EXCEPT !.selectedAgency = agency, !.selections = @ + 1]
    /\ UNCHANGED inflight
    /\ UNCHANGED <<parseVars, storeVars>>

\* the benchmark Select
SelectBenchmark(benchmark) ==
    /\ dash.selections < MaxSelections
    /\ benchmark # dash.benchmark
    /\ dash' = [dash EXCEPT !.benchmark = benchmark, !.selections = @ + 1]
    /\ UNCHANGED inflight
    /\ UNCHANGED <<parseVars, storeVars>>

\* the cleanup of the last effect run: cancelled = true
Cleanup(requests) ==
    LET live == {request \in BagToSet(requests) : request.kind = "analysis" /\ ~request.cancelled}
        others == [request \in BagToSet(requests) \ live |-> requests[request]]
        marked == [request \in {[r EXCEPT !.cancelled = TRUE] : r \in live} |-> 1]
    IN others (+) marked

\* the analysis effect after a render with changed [sessionId, selectedAgency,
\* benchmark]: the cleanup of the last run, then the effect
RunEffect ==
    /\ EffectKey(dash) # dash.effectDeps
    /\ IF dash.sessionId = 0 \/ dash.selectedAgency = 0
       THEN /\ dash' = [dash EXCEPT !.effectDeps = EffectKey(dash)]
            /\ inflight' = Cleanup(inflight)
       ELSE IF dash.analysisRequestKeyRef = EffectKey(dash)
       THEN /\ dash' = [dash EXCEPT !.effectDeps = EffectKey(dash)]
            /\ inflight' = Cleanup(inflight)
       ELSE /\ dash' = [dash EXCEPT !.effectDeps = EffectKey(dash),
                                    !.analysisRequestKeyRef = EffectKey(dash),
                                    !.busy = TRUE,
                                    !.error = ""]
            /\ inflight' = Cleanup(inflight)
                              (+) SetToBag({Request("analysis", EffectKey(dash), <<>>, "", 0)})
    /\ UNCHANGED <<parseVars, storeVars>>

\* run() of the effect from the response of runAnalysis on
AnalysisResponds(request) ==
    /\ request.kind = "analysis"
    /\ BagIn(request, inflight)
    /\ \/ /\ request.cancelled
          /\ dash' = dash
          /\ inflight' = inflight (-) SetToBag({request})
       \/ /\ ~request.cancelled
          /\ dash' = [requestGrowthAndBatch(resetAiSections(dash)) EXCEPT
                         !.analysis = <<request.key>>,
                         !.insightBatchKeyRef = request.key,
                         !.growthSegmentKeyRef = request.key,
                         !.busy = FALSE]
          /\ inflight' = (inflight (-) SetToBag({request}))
                            (+) GrowthAndBatch(request.key, request.key)
       \/ /\ ~request.cancelled
          /\ dash' = [dash EXCEPT !.error = "error", !.busy = FALSE]
          /\ inflight' = inflight (-) SetToBag({request})
    /\ UNCHANGED <<parseVars, storeVars>>

\* a button of a section: triggerSingle and requestSinglePreset up to its fetch
ClickSingle(presetId) ==
    /\ ~dash.busy /\ ~dash.aiBusy /\ dash.analysis # <<>>
    /\ dash.singles < MaxSingles
    /\ dash' = [dash EXCEPT !.aiBusy = TRUE, !.singles = @ + 1]
    /\ inflight' = inflight (+) SetToBag({Request("single", <<>>, dash.analysis[1], presetId, 0)})
    /\ UNCHANGED <<parseVars, storeVars>>

\* requestSinglePreset from the response on
SinglePresetResponds(request) ==
    /\ request.kind = "single"
    /\ BagIn(request, inflight)
    /\ inflight' = inflight (-) SetToBag({request})
    /\ \/ dash' = [dash EXCEPT !.messages[request.presetId] = <<request.analysis>>,
                               !.aiBusy = FALSE]
       \/ dash' = [dash EXCEPT !.error = "error", !.aiBusy = FALSE]
    /\ UNCHANGED <<parseVars, storeVars>>

\* the button "AI 해석/인사이트 일괄 생성": triggerBatch; the key ends with
\* Date.now(), here the number of the click
ClickBatch ==
    /\ ~dash.busy /\ ~dash.aiBusy /\ ~dash.growthSegmentBusy /\ dash.analysis # <<>>
    /\ dash.manuals < MaxManuals
    /\ IF dash.sessionId = 0 \/ dash.selectedAgency = 0
       THEN /\ dash' = [dash EXCEPT !.manuals = @ + 1]
            /\ UNCHANGED inflight
       ELSE /\ dash' = [requestGrowthAndBatch(dash) EXCEPT
                           !.insightBatchKeyRef = EffectKey(dash) \o <<dash.manuals + 1>>,
                           !.growthSegmentKeyRef = EffectKey(dash) \o <<dash.manuals + 1>>,
                           !.manuals = @ + 1]
            /\ inflight' = inflight
                              (+) GrowthAndBatch(dash.analysis[1],
                                                 EffectKey(dash) \o <<dash.manuals + 1>>)
    /\ UNCHANGED <<parseVars, storeVars>>

\* mutant of BatchResponds: the key is compared with analysisRequestKeyRef
BatchResponds_WrongRef(request) ==
    /\ request.kind = "batch"
    /\ BagIn(request, inflight)
    /\ inflight' = inflight (-) SetToBag({request})
    /\ \/ dash' = IF dash.analysisRequestKeyRef # request.key THEN dash
                  ELSE [dash EXCEPT !.messages = [presetId \in PresetIds |-> <<request.analysis>>],
                                    !.aiBusy = FALSE]
       \/ dash' = IF dash.analysisRequestKeyRef # request.key THEN dash
                  ELSE [dash EXCEPT !.error = "error", !.aiBusy = FALSE]
    /\ UNCHANGED <<parseVars, storeVars>>

\* requestBatchPresets from the response on
BatchResponds(request) ==
    /\ request.kind = "batch"
    /\ BagIn(request, inflight)
    /\ inflight' = inflight (-) SetToBag({request})
    /\ \/ dash' = IF dash.insightBatchKeyRef # request.key THEN dash
                  ELSE [dash EXCEPT !.messages = [presetId \in PresetIds |-> <<request.analysis>>],
                                    !.aiBusy = FALSE]
       \/ dash' = IF dash.insightBatchKeyRef # request.key THEN dash
                  ELSE [dash EXCEPT !.error = "error", !.aiBusy = FALSE]
    /\ UNCHANGED <<parseVars, storeVars>>

\* requestGrowthSegments from the response on
GrowthSegmentsResponds(request) ==
    /\ request.kind = "growth"
    /\ BagIn(request, inflight)
    /\ inflight' = inflight (-) SetToBag({request})
    /\ \/ dash' = IF dash.growthSegmentKeyRef # request.key THEN dash
                  ELSE [dash EXCEPT !.growthSegmentRows = <<request.analysis>>,
                                    !.growthSegmentBusy = FALSE]
       \/ dash' = IF dash.growthSegmentKeyRef # request.key THEN dash
                  ELSE [dash EXCEPT !.error = "error", !.growthSegmentBusy = FALSE]
    /\ UNCHANGED <<parseVars, storeVars>>

NextDashboard ==
    \/ ClickLoadDefault
    \/ \E agency \in 1..2 : SelectAgency(agency)
    \/ \E benchmark \in Benchmarks : SelectBenchmark(benchmark)
    \/ RunEffect
    \/ \E presetId \in PresetIds : ClickSingle(presetId)
    \/ ClickBatch
    \/ \E request \in BagToSet(inflight) : LoadDefaultResponds(request)
    \/ \E request \in BagToSet(inflight) : AnalysisResponds(request)
    \/ \E request \in BagToSet(inflight) : SinglePresetResponds(request)
    \/ \E request \in BagToSet(inflight) : BatchResponds(request)
    \/ \E request \in BagToSet(inflight) : GrowthSegmentsResponds(request)

SpecDashboard == InitDashboard /\ [][NextDashboard]_vars

\* C29: no response of a superseded selection changes what is shown: the messages
\* and the growth-segment rows on display were requested for the analysis on display
C29_ShownForDisplayedAnalysis ==
    /\ \A presetId \in PresetIds :
          dash.messages[presetId] # <<>> => dash.messages[presetId] = dash.analysis
    /\ dash.growthSegmentRows # <<>> => dash.growthSegmentRows = dash.analysis

----------------------------------------------------------------------------
(* SpecDashboardFair: SpecDashboard where every request in flight gets its  *)
(* response and React runs the effect after a render with changed deps.     *)
(* The user is under no obligation.                                         *)

\* some request in flight gets its response
Responds ==
    \E request \in BagToSet(inflight) :
        \/ LoadDefaultResponds(request)
        \/ AnalysisResponds(request)
        \/ SinglePresetResponds(request)
        \/ BatchResponds(request)
        \/ GrowthSegmentsResponds(request)

SpecDashboardFair ==
    /\ InitDashboard
    /\ [][NextDashboard]_vars
    /\ WF_vars(RunEffect)
    /\ WF_vars(Responds)

\* C30: when every request gets its response, busy, aiBusy and growthSegmentBusy
\* each return to false, whatever was cancelled or superseded in between
C30_FlagsReturnToFalse ==
    /\ dash.busy ~> ~dash.busy
    /\ dash.aiBusy ~> ~dash.aiBusy
    /\ dash.growthSegmentBusy ~> ~dash.growthSegmentBusy

\* busy, aiBusy and growthSegmentBusy are set while an analysis request that was
\* cancelled, and a batch and a growth-segment request of a selection that is no
\* longer the current one, wait for their responses
C30_Witness ==
    /\ dash.busy /\ dash.aiBusy /\ dash.growthSegmentBusy
    /\ \E request \in BagToSet(inflight) : request.kind = "analysis" /\ request.cancelled
    /\ \E request \in BagToSet(inflight) :
          request.kind = "batch" /\ request.analysis # EffectKey(dash)
    /\ \E request \in BagToSet(inflight) :
          request.kind = "growth" /\ request.analysis # EffectKey(dash)

====
